---- MODULE Spec2Model ----
(***************************************************************************)
(* A model of the Fer interpreter (cfer): the string interner, the stack   *)
(* VM of vm.c and the scope / loop / permanent-variable bookkeeping of the *)
(* single-pass compiler of compiler.c.                                     *)
(***************************************************************************)
EXTENDS Integers, Sequences, FiniteSets, TLC

VARIABLES
    heap,          \* vm.objects: every allocated object, in allocation order
    strings,       \* vm.strings: the intern table
    globals,       \* vm.globals
    stack,         \* vm.stack (with the cells that precede it in memory)
    stackTop,      \* vm.stackTop, as an index into vm.stack
    frames,        \* vm.frames
    frameCount,    \* vm.frameCount
    frame,         \* run()'s cached "CallFrame *frame", as an index
    openUpvalues,  \* vm.openUpvalues (head of the linked list, 0 = NULL)
    pc,            \* where the host is: idle, running, returned, exited, crashed
    result,        \* the InterpretResult of the last interpret call
    errLog,        \* messages written to stderr by runtimeError
    out,           \* values written to stdout by OP_PRINT
    runs,          \* number of interpret calls made so far
    lastOp,        \* history: the opcode run() dispatched last (-1: none)
    permGlobals,   \* history: name -> value of each DEFINE_GLOBAL_PERM executed
    taken,         \* history: the strings allocated by takeString
    calls,         \* history: the state at each CALL that has not returned yet
    marked,        \* the objects whose isMarked is set
    freed,         \* the allocations passed to free(), in order
    source,        \* compile(): the statements of the source text
    pos,           \* compile(): the statement the parser stands before
    cpc,           \* compile(): "idle", "compiling", "done", "crashed", "undefined"
    cresult,       \* what compile returned: "none", "null" or "function"
    compilers,     \* the chain of Compiler structs; the last one is current
    parser,        \* parser.hadError and parser.panicMode
    diagnostics,   \* the messages errorAt has printed during this compile call
    nesting,       \* the block(), function() and whileStatement() calls in progress
    syncing,       \* synchronize() is skipping tokens
    stores,        \* history: the SET_LOCAL / SET_UPVALUE instructions emitted
    earlier,       \* history: what the earlier compile calls returned
    loopLog,       \* history: the loops, breaks and continues compiled, by offset
    chunk,         \* disassembleChunk: the code of the chunk written so far
    pool,          \* the upvalueCount of each function in the chunk's constants
    starts,        \* history: the offsets at which the compiler began an instruction
    atOffset,      \* disassembleChunk: its loop variable offset
    visited,       \* history: the offsets disassembleInstruction was called with
    dpc,           \* "emitting", "disassembling", "done" or "undefined"
    lines,         \* what a read of chunk->lines[i] finds, for each byte written
    tokenLines,    \* history: parser.previous.line at each emitByte
    jumpRun,       \* the last jump or loop compiled, and where executing it lands
    scanner,       \* scanner.c: the Scanner, the bytes it reads and the last Token
    tokenRun       \* the parser over the tokens of one source, and its loops' turns

vmVars == <<heap, strings, globals, stack, stackTop, frames, frameCount, frame,
            openUpvalues, pc, result, errLog, out, runs, lastOp, permGlobals, taken, calls, marked, freed>>

compVars == <<source, pos, cpc, cresult, compilers, parser, diagnostics, nesting,
              syncing, stores, earlier, loopLog>>

lineVars == <<lines, tokenLines>>

debugVars == <<chunk, pool, starts, atOffset, visited, dpc, lineVars, jumpRun, scanner, tokenRun>>

NULL == 0

\* A Token nothing has been scanned into.
NoToken == [type |-> "", start |-> 0, length |-> 0, line |-> 0, message |-> ""]

(***************************************************************************)
(* Bounds of the model.                                                    *)
(***************************************************************************)
HashBits == 4       \* the model keeps the low HashBits bits of the 32-bit hash
UnderCells == 6     \* memory cells modelled below vm.stack
StackCells == 70    \* memory cells modelled from vm.stack upwards
MaxOperands == 4    \* deepest cell below stackTop one instruction touches
MaxRuns == 2        \* interpret calls per behaviour (REPL lines)
MaxStrLen == 2      \* longest string the interner scenario builds
MaxStrings == 2     \* most string objects the interner scenario allocates
MaxCompiles == 2    \* compile calls per behaviour (REPL lines)
LoopLimit == 5      \* largest limit of the counting loops compiled and run

(***************************************************************************)
(* Program constants.                                                      *)
(***************************************************************************)
FRAMES_MAX == 64
UINT8_COUNT == 256
FnvPrime == 16777619
FnvOffsetLow == 5   \* 2166136261 mod 16, the low bits of the offset basis

OP_CONSTANT == 0
OP_NIL == 1
OP_TRUE == 2
OP_FALSE == 3
OP_POP == 4
OP_GET_LOCAL == 5
OP_SET_LOCAL == 6
OP_GET_GLOBAL == 7
OP_DEFINE_GLOBAL == 8
OP_SET_GLOBAL == 9
OP_EQUAL == 10
OP_GREATER == 11
OP_LESS == 12
OP_ADD == 13
OP_SUBTRACT == 14
OP_MULTIPLY == 15
OP_DIVIDE == 16
OP_NOT == 17
OP_NEGATE == 18
OP_PRINT == 19
OP_JUMP == 20
OP_JUMP_IF_FALSE == 21
OP_LOOP == 22
OP_CALL == 23
OP_RETURN == 24
\* Opcodes the compiler and the VM use but chunk.h does not declare; the
\* model numbers them after the declared ones.
OP_GET_UPVALUE == 25
OP_SET_UPVALUE == 26
OP_CLOSURE == 27
OP_CLOSE_UPVALUE == 28
OP_DEFINE_GLOBAL_PERM == 29
OP_CLASS == 30
OP_LIST == 31
OP_DICTIONARY == 32
OP_GET_ITEM == 33
OP_SET_ITEM == 34
OP_INVOKE == 35
OP_SUPER_INVOKE == 36
OP_GET_PROPERTY == 37
OP_SET_PROPERTY == 38
OP_GET_SUPER == 39
OP_METHOD == 40
OP_INHERIT == 41

INTERPRET_OK == "INTERPRET_OK"
INTERPRET_COMPILE_ERROR == "INTERPRET_COMPILE_ERROR"
INTERPRET_RUNTIME_ERROR == "INTERPRET_RUNTIME_ERROR"

(***************************************************************************)
(* Values (value.h).  Numbers are modelled as integers.                    *)
(***************************************************************************)
NIL_VAL == [t |-> "nil", v |-> 0]
BOOL_VAL(b) == [t |-> "bool", v |-> IF b THEN 1 ELSE 0]
NUMBER_VAL(n) == [t |-> "num", v |-> n]
OBJ_VAL(id) == [t |-> "obj", v |-> id]
IS_NIL(x) == x.t = "nil"
IS_BOOL(x) == x.t = "bool"
IS_NUMBER(x) == x.t = "num"
IS_OBJ(x) == x.t = "obj"
AS_BOOL(x) == x.v = 1
AS_NUMBER(x) == x.v
AS_OBJ(x) == x.v

isObjType(h, x, type) == IS_OBJ(x) /\ h[AS_OBJ(x)].type = type
IS_STRING(h, x) == isObjType(h, x, "OBJ_STRING")

\* value.c is not part of the sources: equality as the data model states it.
valuesEqual(a, b) == a = b

\* An isFalsey that takes the number 0 for false as well.
isFalseyZero(x) ==
    IS_NIL(x) \/ (IS_BOOL(x) /\ ~AS_BOOL(x)) \/ (IS_NUMBER(x) /\ AS_NUMBER(x) = 0)

isFalsey(x) == IS_NIL(x) \/ (IS_BOOL(x) /\ ~AS_BOOL(x))

(***************************************************************************)
(* Hashing and the hash table.                                             *)
(***************************************************************************)
HashMod == 2 ^ HashBits

RECURSIVE BitXor(_, _, _)
BitXor(a, b, bits) ==
    IF bits = 0 THEN 0
    ELSE (((a % 2) + (b % 2)) % 2) + 2 * BitXor(a \div 2, b \div 2, bits - 1)

\* FNV-1a; xor and multiplication modulo 2^32 commute with truncation to the
\* low bits, so this is the real hash modulo 2^HashBits.
RECURSIVE hashFrom(_, _, _)
hashFrom(hash, key, i) ==
    IF i > Len(key) THEN hash
    ELSE hashFrom((BitXor(hash, key[i] % HashMod, HashBits) * (FnvPrime % HashMod)) % HashMod,
                  key, i + 1)

hashString(key) == hashFrom(FnvOffsetLow % HashMod, key, 1)

\* table.c is not part of the sources.  A table is modelled as the finite
\* map from its live keys (string objects, compared by identity) to values.
EmptyTable == << >>

tableHas(table, key) == key \in DOMAIN table

tableGet(table, key) ==
    [found |-> tableHas(table, key),
     value |-> IF tableHas(table, key) THEN table[key] ELSE NIL_VAL]

tableSet(table, key, value) ==
    [isNewKey |-> ~tableHas(table, key),
     table |-> [k \in (DOMAIN table) \cup {key} |-> IF k = key THEN value ELSE table[k]]]

tableDelete(table, key) == [k \in (DOMAIN table) \ {key} |-> table[k]]

tableFindString(table, h, chars, hash) ==
    LET hits == {k \in DOMAIN table :
                    /\ h[k].length = Len(chars)
                    /\ h[k].hash = hash
                    /\ h[k].chars = chars}
    IN IF hits = {} THEN NULL ELSE CHOOSE k \in hits : \A m \in hits : k <= m

(***************************************************************************)
(* Objects (object.c).  An object's id is its position in heap.            *)
(***************************************************************************)
allocateObject(h, obj) == [heap |-> Append(h, obj), ret |-> Len(h) + 1]

\* allocateString: the push/pop around tableSet leaves the stack unchanged.
allocateString(h, strs, chars, hash) ==
    LET a == allocateObject(h, [type |-> "OBJ_STRING", length |-> Len(chars),
                                chars |-> chars, hash |-> hash])
    IN [heap |-> a.heap,
        strings |-> tableSet(strs, a.ret, NIL_VAL).table,
        ret |-> a.ret]

copyString(h, strs, chars) ==
    LET hash == hashString(chars)
        interned == tableFindString(strs, h, chars, hash)
    IN IF interned # NULL
       THEN [heap |-> h, strings |-> strs, ret |-> interned]
       ELSE allocateString(h, strs, chars, hash)

\* A takeString that never consults the intern table.
takeStringAlways(h, strs, chars) ==
    allocateString(h, strs, chars, hashString(chars))

takeString(h, strs, chars) ==
    LET hash == hashString(chars)
        interned == tableFindString(strs, h, chars, hash)
    IN IF interned # NULL
       THEN [heap |-> h, strings |-> strs, ret |-> interned]
       ELSE allocateString(h, strs, chars, hash)

newFunction(h) ==
    allocateObject(h, [type |-> "OBJ_FUNCTION", arity |-> 0, upvalueCount |-> 0,
                       name |-> NULL, code |-> << >>, constants |-> << >>])

newNative(h, fn) == allocateObject(h, [type |-> "OBJ_NATIVE", function |-> fn])

\* A newClosure that allocates no upvalue array.
newClosureNoArray(h, function) ==
    allocateObject(h, [type |-> "OBJ_CLOSURE", function |-> function,
                       upvalues |-> << >>,
                       upvalueCount |-> h[function].upvalueCount])

newClosure(h, function) ==
    allocateObject(h, [type |-> "OBJ_CLOSURE", function |-> function,
                       upvalues |-> [i \in 1..h[function].upvalueCount |-> NULL],
                       upvalueCount |-> h[function].upvalueCount])

\* An upvalue's location points either at a stack cell or at its own closed
\* field.
StackPtr(i) == <<"stack", i>>
ClosedPtr(id) == <<"closed", id>>

newUpvalue(h, slot) ==
    allocateObject(h, [type |-> "OBJ_UPVALUE", closed |-> NIL_VAL,
                       location |-> StackPtr(slot), next |-> NULL])

(***************************************************************************)
(* VM state access (vm.c).                                                 *)
(***************************************************************************)
StackLo == 0 - UnderCells
StackHi == StackCells - 1

ZeroFrame == [closure |-> NULL, ip |-> 0, slots |-> 0]

\* The frame run() is executing, its function's chunk, and the bytes at ip.
Fr == frames[frame]
FrFunction == heap[heap[Fr.closure].function]
CodeLen == Len(FrFunction.code)
CodeAt(i) == FrFunction.code[i + 1]
ConstantAt(i) == FrFunction.constants[i + 1]
READ_SHORT == CodeAt(Fr.ip + 1) * 256 + CodeAt(Fr.ip + 2)

peek(distance) == stack[stackTop - 1 - distance]

\* The location an upvalue points at: a stack cell or its own closed field.
Deref(h, st, u) ==
    IF h[u].location[1] = "stack" THEN st[h[u].location[2]] ELSE h[u].closed

RECURSIVE openList(_, _)
openList(h, u) == IF u = NULL THEN << >> ELSE <<u>> \o openList(h, h[u].next)

\* The opcodes run()'s switch has a case for.
HandledOps == {OP_CONSTANT, OP_NIL, OP_TRUE, OP_FALSE, OP_POP, OP_GET_LOCAL,
               OP_SET_LOCAL, OP_GET_GLOBAL, OP_DEFINE_GLOBAL, OP_SET_GLOBAL,
               OP_GET_UPVALUE, OP_SET_UPVALUE, OP_EQUAL, OP_GREATER, OP_LESS,
               OP_ADD, OP_SUBTRACT, OP_MULTIPLY, OP_DIVIDE, OP_NOT, OP_NEGATE,
               OP_PRINT, OP_JUMP, OP_JUMP_IF_FALSE, OP_LOOP, OP_CALL,
               OP_CLOSURE, OP_CLOSE_UPVALUE, OP_RETURN}

\* Number of operand bytes the case for an opcode reads before it acts.
OperandBytes(op) ==
    IF op \in {OP_CONSTANT, OP_GET_LOCAL, OP_SET_LOCAL, OP_GET_GLOBAL,
               OP_DEFINE_GLOBAL, OP_SET_GLOBAL, OP_GET_UPVALUE, OP_SET_UPVALUE,
               OP_CALL, OP_CLOSURE} THEN 1
    ELSE IF op \in {OP_JUMP, OP_JUMP_IF_FALSE, OP_LOOP} THEN 2
    ELSE 0

\* The instruction at ip reads only memory the C program owns: the frame is a
\* live element of vm.frames, the opcode and its operands lie inside the
\* chunk, a constant index is inside the constant pool and names a value of
\* the type the case casts it to, and the stack cells it touches are modelled.
InstrDefined ==
    /\ frame \in 0..(FRAMES_MAX - 1)
    /\ Fr.closure # NULL
    /\ Fr.ip >= 0
    /\ Fr.ip < CodeLen
    /\ stackTop - MaxOperands >= StackLo
    /\ stackTop <= StackHi
    /\ LET op == CodeAt(Fr.ip) IN
       /\ Fr.ip + OperandBytes(op) < CodeLen
       /\ op \in {OP_CONSTANT, OP_GET_GLOBAL, OP_DEFINE_GLOBAL, OP_SET_GLOBAL, OP_CLOSURE}
            => CodeAt(Fr.ip + 1) < Len(FrFunction.constants)
       /\ op \in {OP_GET_GLOBAL, OP_DEFINE_GLOBAL, OP_SET_GLOBAL}
            => IS_STRING(heap, ConstantAt(CodeAt(Fr.ip + 1)))
       /\ op = OP_CLOSURE
            => /\ isObjType(heap, ConstantAt(CodeAt(Fr.ip + 1)), "OBJ_FUNCTION")
               /\ Fr.ip + 1 + 2 * heap[AS_OBJ(ConstantAt(CodeAt(Fr.ip + 1)))].upvalueCount < CodeLen
       /\ op \in {OP_GET_LOCAL, OP_SET_LOCAL}
            => Fr.slots + CodeAt(Fr.ip + 1) <= StackHi
       /\ op \in {OP_GET_UPVALUE, OP_SET_UPVALUE}
            => /\ CodeAt(Fr.ip + 1) < heap[Fr.closure].upvalueCount
               /\ heap[Fr.closure].upvalues[CodeAt(Fr.ip + 1) + 1] # NULL
       /\ op = OP_CALL => CodeAt(Fr.ip + 1) < MaxOperands

\* run() is about to execute the case for op.
Exec(op) == pc = "running" /\ InstrDefined /\ CodeAt(Fr.ip) = op

\* frame->ip after the opcode and n operand bytes were read.
Advance(n) == [frames EXCEPT ![frame].ip = @ + 1 + n]

pushOn(st, top, value) == [st EXCEPT ![top] = value]

\* runtimeError: the message goes to stderr, then resetStack.
runtimeError(message) ==
    /\ errLog' = Append(errLog, message)
    /\ stackTop' = 0
    /\ frameCount' = 0
    /\ openUpvalues' = NULL

\* "runtimeError(...); return INTERPRET_RUNTIME_ERROR;"
FailWith(message) ==
    /\ runtimeError(message)
    /\ pc' = "returned"
    /\ result' = INTERPRET_RUNTIME_ERROR

(***************************************************************************)
(* Upvalues (vm.c, captureUpvalue and closeUpvalues).                      *)
(***************************************************************************)
\* The while loop of captureUpvalue: <<prevUpvalue, upvalue>> at its exit.
\* A walk that also steps over the upvalue of the requested cell itself.
RECURSIVE captureWalkPastEqual(_, _, _, _)
captureWalkPastEqual(h, prevUpvalue, upvalue, local) ==
    IF upvalue # NULL /\ h[upvalue].location[2] >= local
    THEN captureWalkPastEqual(h, upvalue, h[upvalue].next, local)
    ELSE <<prevUpvalue, upvalue>>

RECURSIVE captureWalk(_, _, _, _)
captureWalk(h, prevUpvalue, upvalue, local) ==
    IF upvalue # NULL /\ h[upvalue].location[2] > local
    THEN captureWalk(h, upvalue, h[upvalue].next, local)
    ELSE <<prevUpvalue, upvalue>>

captureUpvalue(h, open, local) ==
    LET w == captureWalk(h, NULL, open, local)
        prevUpvalue == w[1]
        upvalue == w[2]
    IN IF upvalue # NULL /\ h[upvalue].location = StackPtr(local)
       THEN [heap |-> h, open |-> open, ret |-> upvalue]
       ELSE LET a == newUpvalue(h, local)
                h1 == [a.heap EXCEPT ![a.ret].next = upvalue]
            IN IF prevUpvalue = NULL
               THEN [heap |-> h1, open |-> a.ret, ret |-> a.ret]
               ELSE [heap |-> [h1 EXCEPT ![prevUpvalue].next = a.ret],
                     open |-> open, ret |-> a.ret]

\* A close that repoints the upvalue without copying the stack cell.
RECURSIVE closeUpvaluesNoCopy(_, _, _, _)
closeUpvaluesNoCopy(h, st, open, last) ==
    IF open # NULL /\ h[open].location[2] >= last
    THEN closeUpvaluesNoCopy([h EXCEPT ![open].location = ClosedPtr(open)],
                             st, h[open].next, last)
    ELSE [heap |-> h, open |-> open]

RECURSIVE closeUpvalues(_, _, _, _)
closeUpvalues(h, st, open, last) ==
    IF open # NULL /\ h[open].location[2] >= last
    THEN closeUpvalues([h EXCEPT ![open].closed = st[h[open].location[2]],
                                 ![open].location = ClosedPtr(open)],
                       st, h[open].next, last)
    ELSE [heap |-> h, open |-> open]

(***************************************************************************)
(* run(): one action per case of the dispatch switch (vm.c).               *)
(***************************************************************************)
hostVars == <<pc, result, errLog, runs, permGlobals, taken, calls, marked, freed>>

\* Pop popCount values, push value, and move ip past n operand bytes.
PushStep(popCount, value, n) ==
    /\ stack' = pushOn(stack, stackTop - popCount, value)
    /\ stackTop' = stackTop - popCount + 1
    /\ frames' = Advance(n)

OpConstant ==
    /\ Exec(OP_CONSTANT)
    /\ lastOp' = OP_CONSTANT
    /\ PushStep(0, ConstantAt(CodeAt(Fr.ip + 1)), 1)
    /\ UNCHANGED <<heap, strings, globals, frameCount, frame, openUpvalues, out>>
    /\ UNCHANGED hostVars
    /\ UNCHANGED <<compVars, debugVars>>

OpNil ==
    /\ Exec(OP_NIL)
    /\ lastOp' = OP_NIL
    /\ PushStep(0, NIL_VAL, 0)
    /\ UNCHANGED <<heap, strings, globals, frameCount, frame, openUpvalues, out>>
    /\ UNCHANGED hostVars
    /\ UNCHANGED <<compVars, debugVars>>

OpTrue ==
    /\ Exec(OP_TRUE)
    /\ lastOp' = OP_TRUE
    /\ PushStep(0, BOOL_VAL(TRUE), 0)
    /\ UNCHANGED <<heap, strings, globals, frameCount, frame, openUpvalues, out>>
    /\ UNCHANGED hostVars
    /\ UNCHANGED <<compVars, debugVars>>

OpFalse ==
    /\ Exec(OP_FALSE)
    /\ lastOp' = OP_FALSE
    /\ PushStep(0, BOOL_VAL(FALSE), 0)
    /\ UNCHANGED <<heap, strings, globals, frameCount, frame, openUpvalues, out>>
    /\ UNCHANGED hostVars
    /\ UNCHANGED <<compVars, debugVars>>

OpPop ==
    /\ Exec(OP_POP)
    /\ lastOp' = OP_POP
    /\ stackTop' = stackTop - 1
    /\ frames' = Advance(0)
    /\ UNCHANGED <<heap, strings, globals, stack, frameCount, frame, openUpvalues, out>>
    /\ UNCHANGED hostVars
    /\ UNCHANGED <<compVars, debugVars>>

OpGetLocal ==
    /\ Exec(OP_GET_LOCAL)
    /\ lastOp' = OP_GET_LOCAL
    /\ PushStep(0, stack[Fr.slots + CodeAt(Fr.ip + 1)], 1)
    /\ UNCHANGED <<heap, strings, globals, frameCount, frame, openUpvalues, out>>
    /\ UNCHANGED hostVars
    /\ UNCHANGED <<compVars, debugVars>>

OpSetLocal ==
    /\ Exec(OP_SET_LOCAL)
    /\ lastOp' = OP_SET_LOCAL
    /\ stack' = [stack EXCEPT ![Fr.slots + CodeAt(Fr.ip + 1)] = peek(0)]
    /\ frames' = Advance(1)
    /\ UNCHANGED <<heap, strings, globals, stackTop, frameCount, frame, openUpvalues, out>>
    /\ UNCHANGED hostVars
    /\ UNCHANGED <<compVars, debugVars>>

OpGetGlobal ==
    /\ Exec(OP_GET_GLOBAL)
    /\ lastOp' = OP_GET_GLOBAL
    /\ LET name == AS_OBJ(ConstantAt(CodeAt(Fr.ip + 1)))
           got == tableGet(globals, name)
       IN IF ~got.found
          THEN /\ FailWith("Undefined variable '%s'.")
               /\ frames' = Advance(1)
               /\ UNCHANGED <<heap, strings, globals, stack, frame, out, runs, permGlobals, taken, calls, marked, freed>>
          ELSE /\ PushStep(0, got.value, 1)
               /\ UNCHANGED <<heap, strings, globals, frameCount, frame, openUpvalues, out>>
               /\ UNCHANGED hostVars
    /\ UNCHANGED <<compVars, debugVars>>

OpDefineGlobal ==
    /\ Exec(OP_DEFINE_GLOBAL)
    /\ lastOp' = OP_DEFINE_GLOBAL
    /\ globals' = tableSet(globals, AS_OBJ(ConstantAt(CodeAt(Fr.ip + 1))), peek(0)).table
    /\ stackTop' = stackTop - 1
    /\ frames' = Advance(1)
    /\ UNCHANGED <<heap, strings, stack, frameCount, frame, openUpvalues, out>>
    /\ UNCHANGED hostVars
    /\ UNCHANGED <<compVars, debugVars>>

\* A SET_GLOBAL that reports the unbound name and leaves the entry tableSet
\* has just made.
OpSetGlobalKeepsEntry ==
    /\ Exec(OP_SET_GLOBAL)
    /\ lastOp' = OP_SET_GLOBAL
    /\ globals' = tableSet(globals, AS_OBJ(ConstantAt(CodeAt(Fr.ip + 1))), peek(0)).table
    /\ frames' = Advance(1)
    /\ IF tableHas(globals, AS_OBJ(ConstantAt(CodeAt(Fr.ip + 1))))
       THEN UNCHANGED <<stackTop, frameCount, openUpvalues, pc, result, errLog>>
       ELSE FailWith("Undefined variable '%s'.")
    /\ UNCHANGED <<heap, strings, stack, frame, out, runs, permGlobals, taken, calls, marked, freed>>
    /\ UNCHANGED <<compVars, debugVars>>

\* OP_SET_GLOBAL: tableSet first; if that made a new key the name was not
\* defined, the key is deleted again and the error reported.
OpSetGlobal ==
    /\ Exec(OP_SET_GLOBAL)
    /\ lastOp' = OP_SET_GLOBAL
    /\ LET name == AS_OBJ(ConstantAt(CodeAt(Fr.ip + 1)))
           set == tableSet(globals, name, peek(0))
       IN IF set.isNewKey
          THEN /\ globals' = tableDelete(set.table, name)
               /\ FailWith("Undefined variable '%s'.")
               /\ frames' = Advance(1)
               /\ UNCHANGED <<heap, strings, stack, frame, out, runs, permGlobals, taken, calls, marked, freed>>
          ELSE /\ globals' = set.table
               /\ frames' = Advance(1)
               /\ UNCHANGED <<heap, strings, stack, stackTop, frameCount, frame,
                              openUpvalues, out>>
               /\ UNCHANGED hostVars
    /\ UNCHANGED <<compVars, debugVars>>

OpGetUpvalue ==
    /\ Exec(OP_GET_UPVALUE)
    /\ lastOp' = OP_GET_UPVALUE
    /\ PushStep(0, Deref(heap, stack, heap[Fr.closure].upvalues[CodeAt(Fr.ip + 1) + 1]), 1)
    /\ UNCHANGED <<heap, strings, globals, frameCount, frame, openUpvalues, out>>
    /\ UNCHANGED hostVars
    /\ UNCHANGED <<compVars, debugVars>>

\* A SET_UPVALUE that writes the upvalue's closed field whether or not the
\* upvalue is closed.
OpSetUpvalueClosedField ==
    /\ Exec(OP_SET_UPVALUE)
    /\ lastOp' = OP_SET_UPVALUE
    /\ heap' = [heap EXCEPT ![heap[Fr.closure].upvalues[CodeAt(Fr.ip + 1) + 1]].closed =
                                peek(0)]
    /\ frames' = Advance(1)
    /\ UNCHANGED <<strings, globals, stack, stackTop, frameCount, frame, openUpvalues,
                   out>>
    /\ UNCHANGED hostVars
    /\ UNCHANGED <<compVars, debugVars>>

OpSetUpvalue ==
    /\ Exec(OP_SET_UPVALUE)
    /\ lastOp' = OP_SET_UPVALUE
    /\ LET u == heap[Fr.closure].upvalues[CodeAt(Fr.ip + 1) + 1] IN
       IF heap[u].location[1] = "stack"
       THEN /\ stack' = [stack EXCEPT ![heap[u].location[2]] = peek(0)]
            /\ UNCHANGED heap
       ELSE /\ heap' = [heap EXCEPT ![u].closed = peek(0)]
            /\ UNCHANGED stack
    /\ frames' = Advance(1)
    /\ UNCHANGED <<strings, globals, stackTop, frameCount, frame, openUpvalues, out>>
    /\ UNCHANGED hostVars
    /\ UNCHANGED <<compVars, debugVars>>

OpEqual ==
    /\ Exec(OP_EQUAL)
    /\ lastOp' = OP_EQUAL
    /\ PushStep(2, BOOL_VAL(valuesEqual(peek(1), peek(0))), 0)
    /\ UNCHANGED <<heap, strings, globals, frameCount, frame, openUpvalues, out>>
    /\ UNCHANGED hostVars
    /\ UNCHANGED <<compVars, debugVars>>

\* BINARY_OP(valueType, op) on two numbers a and b.
BinaryResult(op, a, b) ==
    CASE op = OP_GREATER -> BOOL_VAL(a > b)
      [] op = OP_LESS -> BOOL_VAL(a < b)
      [] op = OP_SUBTRACT -> NUMBER_VAL(a - b)
      [] op = OP_MULTIPLY -> NUMBER_VAL(a * b)
      [] op = OP_DIVIDE -> NUMBER_VAL(a \div b)

\* What BINARY_OP can push when it reads its operands from the cells below
\* vm.stack: any value of the result type.
BinaryGarbage(op) ==
    IF op \in {OP_GREATER, OP_LESS}
    THEN {BOOL_VAL(FALSE), BOOL_VAL(TRUE)}
    ELSE {NUMBER_VAL(0), NUMBER_VAL(1)}

\* The BINARY_OP macro, used by GREATER, LESS, SUBTRACT, MULTIPLY and DIVIDE.
\* On a non-number operand it calls runtimeError and then falls through to
\* the pops and the push: nothing returns from run().  After resetStack the
\* two pops read below vm.stack, which is undefined: the process may stop, or
\* the run goes on with stackTop below the base.
BinaryOp(op) ==
    /\ Exec(op)
    /\ lastOp' = op
    /\ IF ~IS_NUMBER(peek(0)) \/ ~IS_NUMBER(peek(1))
       THEN /\ errLog' = Append(errLog, "Operands must be numbers.")
            /\ frameCount' = 0
            /\ openUpvalues' = NULL
            /\ \/ /\ pc' = "crashed"
                  /\ stackTop' = 0 - 2
                  /\ UNCHANGED <<stack, frames>>
               \/ /\ \E r \in BinaryGarbage(op) :
                        stack' = pushOn(stack, 0 - 2, r)
                  /\ stackTop' = 0 - 1
                  /\ frames' = Advance(0)
                  /\ UNCHANGED pc
            /\ UNCHANGED <<heap, strings, globals, frame, out, result, runs, permGlobals, taken, calls, marked, freed>>
       ELSE /\ op = OP_DIVIDE =>
                 /\ AS_NUMBER(peek(0)) # 0
                 /\ AS_NUMBER(peek(1)) % AS_NUMBER(peek(0)) = 0
            /\ PushStep(2, BinaryResult(op, AS_NUMBER(peek(1)), AS_NUMBER(peek(0))), 0)
            /\ UNCHANGED <<heap, strings, globals, frameCount, frame, openUpvalues, out>>
            /\ UNCHANGED hostVars
    /\ UNCHANGED <<compVars, debugVars>>

OpGreater == BinaryOp(OP_GREATER)
OpLess == BinaryOp(OP_LESS)
OpSubtract == BinaryOp(OP_SUBTRACT)
OpMultiply == BinaryOp(OP_MULTIPLY)
OpDivide == BinaryOp(OP_DIVIDE)

\* concatenate(): the new buffer holds a's bytes followed by b's.
concatenate(h, strs, a, b) == takeString(h, strs, h[a].chars \o h[b].chars)

OpAdd ==
    /\ Exec(OP_ADD)
    /\ lastOp' = OP_ADD
    /\ IF IS_STRING(heap, peek(0)) /\ IS_STRING(heap, peek(1))
       THEN LET r == concatenate(heap, strings, AS_OBJ(peek(1)), AS_OBJ(peek(0))) IN
            /\ heap' = r.heap
            /\ strings' = r.strings
            /\ PushStep(2, OBJ_VAL(r.ret), 0)
            /\ taken' = IF r.ret > Len(heap) THEN taken \cup {r.ret} ELSE taken
            /\ UNCHANGED <<globals, frameCount, frame, openUpvalues, out>>
            /\ UNCHANGED <<pc, result, errLog, runs, permGlobals, calls, marked, freed>>
       ELSE IF IS_NUMBER(peek(0)) /\ IS_NUMBER(peek(1))
       THEN /\ PushStep(2, NUMBER_VAL(AS_NUMBER(peek(0)) + AS_NUMBER(peek(1))), 0)
            /\ UNCHANGED <<heap, strings, globals, frameCount, frame, openUpvalues, out>>
            /\ UNCHANGED hostVars
       ELSE /\ FailWith("Operands must be two numbers or two strings")
            /\ frames' = Advance(0)
            /\ UNCHANGED <<heap, strings, globals, stack, frame, out, runs, permGlobals, taken, calls, marked, freed>>
    /\ UNCHANGED <<compVars, debugVars>>

OpNot ==
    /\ Exec(OP_NOT)
    /\ lastOp' = OP_NOT
    /\ PushStep(1, BOOL_VAL(isFalsey(peek(0))), 0)
    /\ UNCHANGED <<heap, strings, globals, frameCount, frame, openUpvalues, out>>
    /\ UNCHANGED hostVars
    /\ UNCHANGED <<compVars, debugVars>>

OpNegate ==
    /\ Exec(OP_NEGATE)
    /\ lastOp' = OP_NEGATE
    /\ IF ~IS_NUMBER(peek(0))
       THEN /\ FailWith("Operand must be a number.")
            /\ frames' = Advance(0)
            /\ UNCHANGED <<heap, strings, globals, stack, frame, out, runs, permGlobals, taken, calls, marked, freed>>
       ELSE /\ PushStep(1, NUMBER_VAL(0 - AS_NUMBER(peek(0))), 0)
            /\ UNCHANGED <<heap, strings, globals, frameCount, frame, openUpvalues, out>>
            /\ UNCHANGED hostVars
    /\ UNCHANGED <<compVars, debugVars>>

OpPrint ==
    /\ Exec(OP_PRINT)
    /\ lastOp' = OP_PRINT
    /\ out' = Append(out, peek(0))
    /\ stackTop' = stackTop - 1
    /\ frames' = Advance(0)
    /\ UNCHANGED <<heap, strings, globals, stack, frameCount, frame, openUpvalues>>
    /\ UNCHANGED hostVars
    /\ UNCHANGED <<compVars, debugVars>>

OpJump ==
    /\ Exec(OP_JUMP)
    /\ lastOp' = OP_JUMP
    /\ frames' = [frames EXCEPT ![frame].ip = @ + 3 + READ_SHORT]
    /\ UNCHANGED <<heap, strings, globals, stack, stackTop, frameCount, frame,
                   openUpvalues, out>>
    /\ UNCHANGED hostVars
    /\ UNCHANGED <<compVars, debugVars>>

OpJumpIfFalse ==
    /\ Exec(OP_JUMP_IF_FALSE)
    /\ lastOp' = OP_JUMP_IF_FALSE
    /\ frames' = [frames EXCEPT ![frame].ip =
                     IF isFalsey(peek(0)) THEN @ + 3 + READ_SHORT ELSE @ + 3]
    /\ UNCHANGED <<heap, strings, globals, stack, stackTop, frameCount, frame,
                   openUpvalues, out>>
    /\ UNCHANGED hostVars
    /\ UNCHANGED <<compVars, debugVars>>

OpLoop ==
    /\ Exec(OP_LOOP)
    /\ lastOp' = OP_LOOP
    /\ frames' = [frames EXCEPT ![frame].ip = @ + 3 - READ_SHORT]
    /\ UNCHANGED <<heap, strings, globals, stack, stackTop, frameCount, frame,
                   openUpvalues, out>>
    /\ UNCHANGED hostVars
    /\ UNCHANGED <<compVars, debugVars>>

\* What clockNative can return: the processor time, a number.
MaxClock == 1
ClockValues == {NUMBER_VAL(t) : t \in 0..MaxClock}

\* A call whose frame is based one cell too high, on the first argument.
callSlotsAtTop(closure, argCount) ==
    IF argCount # heap[heap[closure].function].arity
    THEN /\ FailWith("Expected %d arguments but got %d.")
         /\ frames' = Advance(1)
         /\ UNCHANGED <<stack, frame>>
    ELSE IF frameCount = FRAMES_MAX
    THEN /\ FailWith("Stack overflow.")
         /\ frames' = Advance(1)
         /\ UNCHANGED <<stack, frame>>
    ELSE /\ frames' = [Advance(1) EXCEPT ![frameCount] =
                          [closure |-> closure, ip |-> 0,
                           slots |-> stackTop - argCount]]
         /\ frameCount' = frameCount + 1
         /\ frame' = frameCount' - 1
         /\ UNCHANGED <<stack, stackTop, openUpvalues, pc, result, errLog>>

\* A call without the FRAMES_MAX test.
callUnbounded(closure, argCount) ==
    IF argCount # heap[heap[closure].function].arity
    THEN /\ FailWith("Expected %d arguments but got %d.")
         /\ frames' = Advance(1)
         /\ UNCHANGED <<stack, frame>>
    ELSE /\ frames' = [Advance(1) EXCEPT ![frameCount] =
                          [closure |-> closure, ip |-> 0,
                           slots |-> stackTop - argCount - 1]]
         /\ frameCount' = frameCount + 1
         /\ frame' = frameCount' - 1
         /\ UNCHANGED <<stack, stackTop, openUpvalues, pc, result, errLog>>

\* call(closure, argCount), reached from callValue for an OBJ_CLOSURE callee.
\* ip has already moved past the CALL instruction.
call(closure, argCount) ==
    IF argCount # heap[heap[closure].function].arity
    THEN /\ FailWith("Expected %d arguments but got %d.")
         /\ frames' = Advance(1)
         /\ UNCHANGED <<stack, frame>>
    ELSE IF frameCount = FRAMES_MAX
    THEN /\ FailWith("Stack overflow.")
         /\ frames' = Advance(1)
         /\ UNCHANGED <<stack, frame>>
    ELSE /\ frames' = [Advance(1) EXCEPT ![frameCount] =
                          [closure |-> closure, ip |-> 0,
                           slots |-> stackTop - argCount - 1]]
         /\ frameCount' = frameCount + 1
         /\ frame' = frameCount' - 1
         /\ UNCHANGED <<stack, stackTop, openUpvalues, pc, result, errLog>>

\* A callValue that takes every value for callable: a callee that is no
\* closure and no native is called as if it did nothing.
callValueOfAnything(callee, argCount) ==
    IF isObjType(heap, callee, "OBJ_CLOSURE")
    THEN call(AS_OBJ(callee), argCount)
    ELSE /\ frames' = Advance(1)
         /\ frame' = frameCount - 1
         /\ UNCHANGED <<stack, stackTop, frameCount, openUpvalues, pc, result, errLog>>

\* callValue, and what OP_CALL does with its result: on false run() returns
\* INTERPRET_RUNTIME_ERROR, on true the frame pointer is refreshed.
callValue(callee, argCount) ==
    IF isObjType(heap, callee, "OBJ_CLOSURE")
    THEN call(AS_OBJ(callee), argCount)
    ELSE IF isObjType(heap, callee, "OBJ_NATIVE")
    THEN /\ \E r \in ClockValues :
               stack' = pushOn(stack, stackTop - argCount - 1, r)
         /\ stackTop' = stackTop - argCount
         /\ frames' = Advance(1)
         /\ frame' = frameCount - 1
         /\ UNCHANGED <<frameCount, openUpvalues, pc, result, errLog>>
    ELSE /\ FailWith("Can only call functions and classes.")
         /\ frames' = Advance(1)
         /\ UNCHANGED <<stack, frame>>

\* OP_CALL: callValue(peek(argCount), argCount).
OpCall ==
    /\ Exec(OP_CALL)
    /\ lastOp' = OP_CALL
    /\ callValue(peek(CodeAt(Fr.ip + 1)), CodeAt(Fr.ip + 1))
    /\ calls' = IF frameCount' = frameCount + 1
                THEN Append(calls, [stack |-> stack, stackTop |-> stackTop,
                                    argCount |-> CodeAt(Fr.ip + 1),
                                    frame |-> frame, ip |-> Fr.ip])
                ELSE calls
    /\ UNCHANGED <<heap, strings, globals, out, runs, permGlobals, taken, marked, freed>>
    /\ UNCHANGED <<compVars, debugVars>>

\* The loop of OP_CLOSURE over the closure's upvalues, from the i-th on.
RECURSIVE captureAll(_, _, _, _, _, _)
captureAll(h, open, closure, fr, code, i) ==
    IF i >= h[closure].upvalueCount THEN [heap |-> h, open |-> open]
    ELSE LET isLocal == code[fr.ip + 2 + 2 * i + 1]
             index == code[fr.ip + 3 + 2 * i + 1]
         IN IF isLocal # 0
            THEN LET c == captureUpvalue(h, open, fr.slots + index) IN
                 captureAll([c.heap EXCEPT ![closure].upvalues[i + 1] = c.ret],
                            c.open, closure, fr, code, i + 1)
            ELSE captureAll([h EXCEPT ![closure].upvalues[i + 1] =
                                         h[fr.closure].upvalues[index + 1]],
                            open, closure, fr, code, i + 1)

OpClosure ==
    /\ Exec(OP_CLOSURE)
    /\ lastOp' = OP_CLOSURE
    /\ LET function == AS_OBJ(ConstantAt(CodeAt(Fr.ip + 1)))
           a == newClosure(heap, function)
           c == captureAll(a.heap, openUpvalues, a.ret, Fr, FrFunction.code, 0)
       IN /\ heap' = c.heap
          /\ openUpvalues' = c.open
          /\ PushStep(0, OBJ_VAL(a.ret), 1 + 2 * heap[function].upvalueCount)
    /\ UNCHANGED <<strings, globals, frameCount, frame, out>>
    /\ UNCHANGED hostVars
    /\ UNCHANGED <<compVars, debugVars>>

OpCloseUpvalue ==
    /\ Exec(OP_CLOSE_UPVALUE)
    /\ lastOp' = OP_CLOSE_UPVALUE
    /\ LET c == closeUpvalues(heap, stack, openUpvalues, stackTop - 1) IN
       /\ heap' = c.heap
       /\ openUpvalues' = c.open
    /\ stackTop' = stackTop - 1
    /\ frames' = Advance(0)
    /\ UNCHANGED <<strings, globals, stack, frameCount, frame, out>>
    /\ UNCHANGED hostVars
    /\ UNCHANGED <<compVars, debugVars>>

\* A RETURN that leaves the frame's cells where they are: the result stays
\* on top of them.
OpReturnNoDiscard ==
    /\ Exec(OP_RETURN)
    /\ lastOp' = OP_RETURN
    /\ LET c == closeUpvalues(heap, stack, openUpvalues, Fr.slots)
       IN /\ heap' = c.heap
          /\ openUpvalues' = c.open
          /\ frameCount' = frameCount - 1
          /\ IF frameCount' = 0
             THEN /\ stackTop' = stackTop - 2
                  /\ frames' = Advance(0)
                  /\ pc' = "returned"
                  /\ result' = INTERPRET_OK
                  /\ UNCHANGED <<stack, frame>>
             ELSE /\ frames' = Advance(0)
                  /\ frame' = frameCount' - 1
                  /\ UNCHANGED <<stack, stackTop, pc, result>>
    /\ calls' = IF calls = << >> THEN calls ELSE SubSeq(calls, 1, Len(calls) - 1)
    /\ UNCHANGED <<strings, globals, errLog, out, runs, permGlobals, taken, marked, freed>>
    /\ UNCHANGED <<compVars, debugVars>>

\* OP_RETURN: the result is popped, the frame's upvalues are closed and the
\* frame is dropped; the last frame ends run(), otherwise the result takes
\* the callee's place.
OpReturn ==
    /\ Exec(OP_RETURN)
    /\ lastOp' = OP_RETURN
    /\ LET value == peek(0)
           c == closeUpvalues(heap, stack, openUpvalues, Fr.slots)
       IN /\ heap' = c.heap
          /\ openUpvalues' = c.open
          /\ frameCount' = frameCount - 1
          /\ IF frameCount' = 0
             THEN /\ stackTop' = stackTop - 2
                  /\ frames' = Advance(0)
                  /\ pc' = "returned"
                  /\ result' = INTERPRET_OK
                  /\ UNCHANGED <<stack, frame>>
             ELSE /\ stack' = pushOn(stack, Fr.slots, value)
                  /\ stackTop' = Fr.slots + 1
                  /\ frames' = Advance(0)
                  /\ frame' = frameCount' - 1
                  /\ UNCHANGED <<pc, result>>
    /\ calls' = IF calls = << >> THEN calls ELSE SubSeq(calls, 1, Len(calls) - 1)
    /\ UNCHANGED <<strings, globals, errLog, out, runs, permGlobals, taken, marked, freed>>
    /\ UNCHANGED <<compVars, debugVars>>

\* A byte the switch has no case for: nothing happens and the loop reads the
\* next byte as an opcode.  DEFINE_GLOBAL_PERM is such a byte; permGlobals
\* records the binding the instruction was emitted to make.
OpNoCase ==
    /\ pc = "running"
    /\ InstrDefined
    /\ CodeAt(Fr.ip) \notin HandledOps
    /\ lastOp' = CodeAt(Fr.ip)
    /\ frames' = Advance(0)
    /\ permGlobals' =
          IF /\ CodeAt(Fr.ip) = OP_DEFINE_GLOBAL_PERM
             /\ Fr.ip + 1 < CodeLen
             /\ CodeAt(Fr.ip + 1) < Len(FrFunction.constants)
          THEN tableSet(permGlobals, AS_OBJ(ConstantAt(CodeAt(Fr.ip + 1))), peek(0)).table
          ELSE permGlobals
    /\ UNCHANGED <<heap, strings, globals, stack, stackTop, frameCount, frame,
                   openUpvalues, pc, result, errLog, out, runs, taken, calls, marked, freed>>
    /\ UNCHANGED <<compVars, debugVars>>

\* The next instruction would read or write memory the program does not own
\* (a frame outside vm.frames, bytes past the chunk, a constant past the pool,
\* cells outside the stack): the behaviour is undefined.  The process is
\* killed, or goes on in a state this model does not follow.
Undefined ==
    /\ pc = "running"
    /\ ~InstrDefined
    /\ pc' \in {"crashed", "undefined"}
    /\ UNCHANGED <<heap, strings, globals, stack, stackTop, frames, frameCount, frame,
                   openUpvalues, result, errLog, out, runs, lastOp, permGlobals, taken, calls, marked, freed>>
    /\ UNCHANGED <<compVars, debugVars>>

(***************************************************************************)
(* Compiled programs.  Each is the function objects compile() builds for   *)
(* the source in its comment: per function its name (bytes; empty for the  *)
(* script), arity, upvalue count, bytecode and constant pool.  A constant  *)
(* is a number, a string (bytes) or a function (index into the program).   *)
(***************************************************************************)
Num(n) == [k |-> "num", n |-> n, s |-> << >>]
Str(s) == [k |-> "str", n |-> 0, s |-> s]
Fun(i) == [k |-> "fn", n |-> i, s |-> << >>]
FnDesc(name, arity, upvalueCount, code, consts) ==
    [name |-> name, arity |-> arity, upvalueCount |-> upvalueCount,
     code |-> code, consts |-> consts]

\* fun mk() { var n = 0; fun inc() { n = n + 1; return n; } return inc; }
\* var c = mk(); print c(); print c();
ProgCounter == <<
    FnDesc(<< >>, 0, 0,
           <<OP_CLOSURE, 1, OP_DEFINE_GLOBAL, 0,
             OP_GET_GLOBAL, 3, OP_CALL, 0, OP_DEFINE_GLOBAL, 2,
             OP_GET_GLOBAL, 4, OP_CALL, 0, OP_PRINT,
             OP_GET_GLOBAL, 5, OP_CALL, 0, OP_PRINT,
             OP_NIL, OP_RETURN>>,
           <<Str(<<109, 107>>), Fun(2), Str(<<99>>), Str(<<109, 107>>),
             Str(<<99>>), Str(<<99>>)>>),
    FnDesc(<<109, 107>>, 0, 0,
           <<OP_CONSTANT, 0, OP_CLOSURE, 1, 1, 1, OP_GET_LOCAL, 2, OP_RETURN,
             OP_NIL, OP_RETURN>>,
           <<Num(0), Fun(3)>>),
    FnDesc(<<105, 110, 99>>, 0, 1,
           <<OP_GET_UPVALUE, 0, OP_CONSTANT, 0, OP_ADD, OP_SET_UPVALUE, 0, OP_POP,
             OP_GET_UPVALUE, 0, OP_RETURN, OP_NIL, OP_RETURN>>,
           <<Num(1)>>) >>

\* { var a = 1; fun f() { return a; } fun g() { a = 2; } g(); print f(); }
ProgShare == <<
    FnDesc(<< >>, 0, 0,
           <<OP_CONSTANT, 0, OP_CLOSURE, 1, 1, 1, OP_CLOSURE, 2, 1, 1,
             OP_GET_LOCAL, 3, OP_CALL, 0, OP_POP,
             OP_GET_LOCAL, 2, OP_CALL, 0, OP_PRINT,
             OP_POP, OP_POP, OP_CLOSE_UPVALUE, OP_NIL, OP_RETURN>>,
           <<Num(1), Fun(2), Fun(3)>>),
    FnDesc(<<102>>, 0, 1,
           <<OP_GET_UPVALUE, 0, OP_RETURN, OP_NIL, OP_RETURN>>, << >>),
    FnDesc(<<103>>, 0, 1,
           <<OP_CONSTANT, 0, OP_SET_UPVALUE, 0, OP_POP, OP_NIL, OP_RETURN>>,
           <<Num(2)>>) >>

\* { var a = 1; var b = 2; var c = 3;
\*   fun f() { return c + a; }
\*   fun g() { fun h() { return b + a; } return h; }
\*   print g()() + f(); }
ProgNested == <<
    FnDesc(<< >>, 0, 0,
           <<OP_CONSTANT, 0, OP_CONSTANT, 1, OP_CONSTANT, 2,
             OP_CLOSURE, 3, 1, 3, 1, 1, OP_CLOSURE, 4, 1, 2, 1, 1,
             OP_GET_LOCAL, 5, OP_CALL, 0, OP_CALL, 0,
             OP_GET_LOCAL, 4, OP_CALL, 0, OP_ADD, OP_PRINT,
             OP_POP, OP_POP, OP_CLOSE_UPVALUE, OP_CLOSE_UPVALUE, OP_CLOSE_UPVALUE,
             OP_NIL, OP_RETURN>>,
           <<Num(1), Num(2), Num(3), Fun(2), Fun(3)>>),
    FnDesc(<<102>>, 0, 2,
           <<OP_GET_UPVALUE, 0, OP_GET_UPVALUE, 1, OP_ADD, OP_RETURN,
             OP_NIL, OP_RETURN>>, << >>),
    FnDesc(<<103>>, 0, 2,
           <<OP_CLOSURE, 0, 0, 0, 0, 1, OP_GET_LOCAL, 1, OP_RETURN,
             OP_NIL, OP_RETURN>>,
           <<Fun(4)>>),
    FnDesc(<<104>>, 0, 2,
           <<OP_GET_UPVALUE, 0, OP_GET_UPVALUE, 1, OP_ADD, OP_RETURN,
             OP_NIL, OP_RETURN>>, << >>) >>

\* fun f() { f(); } f();
ProgRecurse == <<
    FnDesc(<< >>, 0, 0,
           <<OP_CLOSURE, 1, OP_DEFINE_GLOBAL, 0, OP_GET_GLOBAL, 2, OP_CALL, 0,
             OP_POP, OP_NIL, OP_RETURN>>,
           <<Str(<<102>>), Fun(2), Str(<<102>>)>>),
    FnDesc(<<102>>, 0, 0,
           <<OP_GET_GLOBAL, 0, OP_CALL, 0, OP_POP, OP_NIL, OP_RETURN>>,
           <<Str(<<102>>)>>) >>

\* fun f(a) { return a; } print f(1); f();
ProgArity == <<
    FnDesc(<< >>, 0, 0,
           <<OP_CLOSURE, 1, OP_DEFINE_GLOBAL, 0,
             OP_GET_GLOBAL, 2, OP_CONSTANT, 3, OP_CALL, 1, OP_PRINT,
             OP_GET_GLOBAL, 4, OP_CALL, 0, OP_POP, OP_NIL, OP_RETURN>>,
           <<Str(<<102>>), Fun(2), Str(<<102>>), Num(1), Str(<<102>>)>>),
    FnDesc(<<102>>, 1, 0,
           <<OP_GET_LOCAL, 1, OP_RETURN, OP_NIL, OP_RETURN>>, << >>) >>

\* { var a = 1; fun f() { return a; } print a - nil; }
ProgBinaryError == <<
    FnDesc(<< >>, 0, 0,
           <<OP_CONSTANT, 0, OP_CLOSURE, 1, 1, 1,
             OP_GET_LOCAL, 1, OP_NIL, OP_SUBTRACT, OP_PRINT,
             OP_POP, OP_CLOSE_UPVALUE, OP_NIL, OP_RETURN>>,
           <<Num(1), Fun(2)>>),
    FnDesc(<<102>>, 0, 1,
           <<OP_GET_UPVALUE, 0, OP_RETURN, OP_NIL, OP_RETURN>>, << >>) >>

\* print 1 < nil; print 2;
ProgLessError == <<
    FnDesc(<< >>, 0, 0,
           <<OP_CONSTANT, 0, OP_NIL, OP_LESS, OP_PRINT,
             OP_CONSTANT, 1, OP_PRINT, OP_NIL, OP_RETURN>>,
           <<Num(1), Num(2)>>) >>

\* perm x = 1; x = 2;
ProgPerm == <<
    FnDesc(<< >>, 0, 0,
           <<OP_CONSTANT, 1, OP_DEFINE_GLOBAL_PERM, 0,
             OP_CONSTANT, 3, OP_SET_GLOBAL, 2, OP_POP, OP_NIL, OP_RETURN>>,
           <<Str(<<120>>), Num(1), Str(<<120>>), Num(2)>>) >>

\* var a = "a"; var b = "b"; print a + b == "ab"; print a + b;
ProgStrings == <<
    FnDesc(<< >>, 0, 0,
           <<OP_CONSTANT, 1, OP_DEFINE_GLOBAL, 0, OP_CONSTANT, 3, OP_DEFINE_GLOBAL, 2,
             OP_GET_GLOBAL, 4, OP_GET_GLOBAL, 5, OP_ADD, OP_CONSTANT, 6, OP_EQUAL,
             OP_PRINT,
             OP_GET_GLOBAL, 7, OP_GET_GLOBAL, 8, OP_ADD, OP_PRINT,
             OP_NIL, OP_RETURN>>,
           <<Str(<<97>>), Str(<<97>>), Str(<<98>>), Str(<<98>>), Str(<<97>>),
             Str(<<98>>), Str(<<97, 98>>), Str(<<97>>), Str(<<98>>)>>) >>

\* var i = 0; while (i < 2) { i = i + 1; }
\* if (!(i == 3)) print false; else print true;
\* print -i * 2 / 2 > 0 - 1;
\* { var t = true; t = nil; }
\* clock();
ProgFlow == <<
    FnDesc(<< >>, 0, 0,
           <<OP_CONSTANT, 1, OP_DEFINE_GLOBAL, 0,
             OP_GET_GLOBAL, 2, OP_CONSTANT, 3, OP_LESS,
             OP_JUMP_IF_FALSE, 0, 12, OP_POP,
             OP_GET_GLOBAL, 5, OP_CONSTANT, 6, OP_ADD, OP_SET_GLOBAL, 4, OP_POP,
             OP_LOOP, 0, 20, OP_POP,
             OP_GET_GLOBAL, 7, OP_CONSTANT, 8, OP_EQUAL, OP_NOT,
             OP_JUMP_IF_FALSE, 0, 6, OP_POP, OP_FALSE, OP_PRINT,
             OP_JUMP, 0, 3, OP_POP, OP_TRUE, OP_PRINT,
             OP_GET_GLOBAL, 9, OP_NEGATE, OP_CONSTANT, 10, OP_MULTIPLY,
             OP_CONSTANT, 11, OP_DIVIDE, OP_CONSTANT, 12, OP_CONSTANT, 13,
             OP_SUBTRACT, OP_GREATER, OP_PRINT,
             OP_TRUE, OP_NIL, OP_SET_LOCAL, 1, OP_POP, OP_POP,
             OP_GET_GLOBAL, 14, OP_CALL, 0, OP_POP,
             OP_NIL, OP_RETURN>>,
           <<Str(<<105>>), Num(0), Str(<<105>>), Num(2), Str(<<105>>), Str(<<105>>),
             Num(1), Str(<<105>>), Num(3), Str(<<105>>), Num(2), Num(2), Num(0),
             Num(1), Str(<<99, 108, 111, 99, 107>>)>>) >>

\* y = 1;
ProgSetUndefined == <<
    FnDesc(<< >>, 0, 0,
           <<OP_CONSTANT, 1, OP_SET_GLOBAL, 0, OP_POP, OP_NIL, OP_RETURN>>,
           <<Str(<<121>>), Num(1)>>) >>

\* print -nil;
ProgNegateError == <<
    FnDesc(<< >>, 0, 0,
           <<OP_NIL, OP_NEGATE, OP_PRINT, OP_NIL, OP_RETURN>>, << >>) >>

\* nil();
ProgCallNil == <<
    FnDesc(<< >>, 0, 0,
           <<OP_NIL, OP_CALL, 0, OP_POP, OP_NIL, OP_RETURN>>, << >>) >>

\* "ab"(1);
ProgCallString == <<
    FnDesc(<< >>, 0, 0,
           <<OP_CONSTANT, 0, OP_CONSTANT, 1, OP_CALL, 1, OP_POP, OP_NIL, OP_RETURN>>,
           <<Str(<<97, 98>>), Num(1)>>) >>

\* { var n = 1; n(); }
ProgCallNumber == <<
    FnDesc(<< >>, 0, 0,
           <<OP_CONSTANT, 0, OP_GET_LOCAL, 1, OP_CALL, 0, OP_POP, OP_POP,
             OP_NIL, OP_RETURN>>,
           <<Num(1)>>) >>

\* true();
ProgCallTrue == <<
    FnDesc(<< >>, 0, 0,
           <<OP_TRUE, OP_CALL, 0, OP_POP, OP_NIL, OP_RETURN>>, << >>) >>

\* class A {} A();
\* classDeclaration emits CLASS and DEFINE_GLOBAL with the name, then
\* GET_GLOBAL (namedVariable) and, after the empty body, POP.
ProgClass == <<
    FnDesc(<< >>, 0, 0,
           <<OP_CLASS, 0, OP_DEFINE_GLOBAL, 0, OP_GET_GLOBAL, 1, OP_POP,
             OP_GET_GLOBAL, 2, OP_CALL, 0, OP_POP, OP_NIL, OP_RETURN>>,
           <<Str(<<65>>), Str(<<65>>), Str(<<65>>)>>) >>

\* print "a" + "b" + "c";
ProgConcat == <<
    FnDesc(<< >>, 0, 0,
           <<OP_CONSTANT, 0, OP_CONSTANT, 1, OP_ADD, OP_CONSTANT, 2, OP_ADD,
             OP_PRINT, OP_NIL, OP_RETURN>>,
           <<Str(<<97>>), Str(<<98>>), Str(<<99>>)>>) >>

\* print y;
ProgGetUndefined == <<
    FnDesc(<< >>, 0, 0,
           <<OP_GET_GLOBAL, 0, OP_PRINT, OP_NIL, OP_RETURN>>,
           <<Str(<<121>>)>>) >>

\* print !0; print !""; print !nil;
\* if (0) print 1; if ("") print 1; if (nil) print 1;
ProgTruthy == <<
    FnDesc(<< >>, 0, 0,
           <<OP_CONSTANT, 0, OP_NOT, OP_PRINT,
             OP_CONSTANT, 1, OP_NOT, OP_PRINT,
             OP_NIL, OP_NOT, OP_PRINT,
             OP_CONSTANT, 2, OP_JUMP_IF_FALSE, 0, 7, OP_POP,
             OP_CONSTANT, 3, OP_PRINT, OP_JUMP, 0, 1, OP_POP,
             OP_CONSTANT, 4, OP_JUMP_IF_FALSE, 0, 7, OP_POP,
             OP_CONSTANT, 5, OP_PRINT, OP_JUMP, 0, 1, OP_POP,
             OP_NIL, OP_JUMP_IF_FALSE, 0, 7, OP_POP,
             OP_CONSTANT, 6, OP_PRINT, OP_JUMP, 0, 1, OP_POP,
             OP_NIL, OP_RETURN>>,
           <<Num(0), Str(<< >>), Num(0), Num(1), Str(<< >>), Num(1), Num(1)>>) >>

\* perm x = 1;
ProgPermOnly == <<
    FnDesc(<< >>, 0, 0,
           <<OP_CONSTANT, 1, OP_DEFINE_GLOBAL_PERM, 0, OP_NIL, OP_RETURN>>,
           <<Str(<<120>>), Num(1)>>) >>

\* var f; { var a = 1; fun g() { return a; } f = g; -nil; }
ProgEscape == <<
    FnDesc(<< >>, 0, 0,
           <<OP_NIL, OP_DEFINE_GLOBAL, 0, OP_CONSTANT, 1, OP_CLOSURE, 2, 1, 1,
             OP_GET_LOCAL, 2, OP_SET_GLOBAL, 3, OP_POP, OP_NIL, OP_NEGATE, OP_POP,
             OP_POP, OP_CLOSE_UPVALUE, OP_NIL, OP_RETURN>>,
           <<Str(<<102>>), Num(1), Fun(2), Str(<<102>>)>>),
    FnDesc(<<103>>, 0, 1,
           <<OP_GET_UPVALUE, 0, OP_RETURN, OP_NIL, OP_RETURN>>, << >>) >>

Programs == {ProgEscape, ProgPermOnly, ProgTruthy, ProgConcat, ProgGetUndefined, ProgClass, ProgCallString, ProgCallNumber, ProgCallTrue,
             ProgCounter, ProgShare, ProgNested, ProgRecurse, ProgArity,
             ProgBinaryError, ProgLessError, ProgPerm, ProgStrings, ProgFlow,
             ProgSetUndefined, ProgNegateError, ProgCallNil}

(***************************************************************************)
(* The objects compile() leaves on the heap for a program: one function    *)
(* object per function (initCompiler), its name and its string constants   *)
(* interned through copyString.                                            *)
(***************************************************************************)
RECURSIVE compileFunctions(_, _, _)
compileFunctions(st, prog, i) ==
    IF i > Len(prog) THEN st
    ELSE LET fd == prog[i]
             a == newFunction(st.heap)
             nm == IF fd.name = << >>
                   THEN [heap |-> a.heap, strings |-> st.strings, ret |-> NULL]
                   ELSE copyString(a.heap, st.strings, fd.name)
         IN compileFunctions(
                [heap |-> [nm.heap EXCEPT ![a.ret].name = nm.ret,
                                          ![a.ret].arity = fd.arity,
                                          ![a.ret].upvalueCount = fd.upvalueCount,
                                          ![a.ret].code = fd.code],
                 strings |-> nm.strings,
                 ids |-> Append(st.ids, a.ret)],
                prog, i + 1)

RECURSIVE compileConstants(_, _, _, _)
compileConstants(st, prog, i, j) ==
    IF i > Len(prog) THEN st
    ELSE IF j > Len(prog[i].consts) THEN compileConstants(st, prog, i + 1, 1)
    ELSE LET cd == prog[i].consts[j]
             fid == st.ids[i]
         IN IF cd.k = "str"
            THEN LET c == copyString(st.heap, st.strings, cd.s) IN
                 compileConstants(
                     [heap |-> [c.heap EXCEPT ![fid].constants = Append(@, OBJ_VAL(c.ret))],
                      strings |-> c.strings, ids |-> st.ids],
                     prog, i, j + 1)
            ELSE LET value == IF cd.k = "num" THEN NUMBER_VAL(cd.n)
                              ELSE OBJ_VAL(st.ids[cd.n])
                 IN compileConstants(
                        [heap |-> [st.heap EXCEPT ![fid].constants = Append(@, value)],
                         strings |-> st.strings, ids |-> st.ids],
                        prog, i, j + 1)

\* compile(source) for a source that compiles: the heap, the intern table and
\* the script function it returns.
compile(h, strs, prog) ==
    LET st == compileConstants(
                  compileFunctions([heap |-> h, strings |-> strs, ids |-> << >>], prog, 1),
                  prog, 1, 1)
    IN [heap |-> st.heap, strings |-> st.strings, function |-> st.ids[1]]

(***************************************************************************)
(* initVM and interpret (vm.c).                                            *)
(***************************************************************************)
\* The state initVM leaves: empty stacks and tables, then
\* defineNative("clock", clockNative), whose two pushes stay in the popped
\* cells 0 and 1.
InitVMHeap ==
    newNative(copyString(<< >>, EmptyTable, <<99, 108, 111, 99, 107>>).heap,
              "clockNative").heap

InitVM ==
    LET s == copyString(<< >>, EmptyTable, <<99, 108, 111, 99, 107>>)
        n == newNative(s.heap, "clockNative")
    IN /\ heap = n.heap
       /\ strings = s.strings
       /\ globals = tableSet(EmptyTable, s.ret, OBJ_VAL(n.ret)).table
       /\ stack = [i \in StackLo..StackHi |->
                      IF i = 0 THEN OBJ_VAL(s.ret)
                      ELSE IF i = 1 THEN OBJ_VAL(n.ret)
                      ELSE NUMBER_VAL(0)]
       /\ stackTop = 0
       /\ frames = [i \in 0..(FRAMES_MAX - 1) |-> ZeroFrame]
       /\ frameCount = 0
       /\ frame = 0 - 1
       /\ openUpvalues = NULL
       /\ pc = "idle"
       /\ result = "none"
       /\ errLog = << >>
       /\ out = << >>
       /\ runs = 0
       /\ lastOp = 0 - 1
       /\ permGlobals = EmptyTable
       /\ taken = {}
       /\ calls = << >>
       /\ marked = {}
       /\ freed = << >>

\* interpret(source) up to the entry into run(): compile, push the function,
\* wrap it in a closure, replace it on the stack, call(closure, 0).
enterRun(prog) ==
    /\ LET c == compile(heap, strings, prog)
           a == newClosure(c.heap, c.function)
       IN /\ heap' = a.heap
          /\ strings' = c.strings
          /\ stack' = pushOn(stack, stackTop, OBJ_VAL(a.ret))
          /\ stackTop' = stackTop + 1
          /\ frames' = [frames EXCEPT ![frameCount] =
                           [closure |-> a.ret, ip |-> 0, slots |-> stackTop]]
          /\ frameCount' = frameCount + 1
          /\ frame' = frameCount' - 1
    /\ pc' = "running"
    /\ runs' = runs + 1
    /\ lastOp' = 0 - 1
    /\ calls' = << >>

Interpret ==
    /\ pc \in {"idle", "returned"}
    /\ runs < MaxRuns
    /\ \E prog \in Programs : enterRun(prog)
    /\ UNCHANGED <<globals, openUpvalues, result, errLog, out, permGlobals, taken, marked, freed>>
    /\ UNCHANGED <<compVars, debugVars>>

\* An allocation: the object o itself or a buffer it owns.
Allocation(kind, o) == <<kind, o>>

\* freeChunk releases the code array.
freeChunk(o) == <<Allocation("code", o)>>

\* freeObject: the allocations it passes to reallocate(pointer, size, 0), in
\* order.  The OBJ_STRING case has no break and runs on into OBJ_UPVALUE.
freeObject(h, o) ==
    IF h[o].type = "OBJ_CLOSURE"
    THEN <<Allocation("upvalues", o), Allocation("object", o)>>
    ELSE IF h[o].type = "OBJ_FUNCTION"
    THEN freeChunk(o) \o <<Allocation("object", o)>>
    ELSE IF h[o].type = "OBJ_NATIVE"
    THEN <<Allocation("object", o)>>
    ELSE IF h[o].type = "OBJ_STRING"
    THEN <<Allocation("chars", o), Allocation("object", o)>>
           \o <<Allocation("object", o)>>
    ELSE <<Allocation("object", o)>>

RECURSIVE freeObjects(_, _)
\* freeObjects from object o on: vm.objects lists the newest object first.
freeObjects(h, o) ==
    IF o = 0 THEN << >> ELSE freeObject(h, o) \o freeObjects(h, o - 1)

\* Some allocation occurs twice in the sequence of frees.
FreedTwice(frees) ==
    \E i, j \in 1..Len(frees) : i < j /\ frees[i] = frees[j]

\* main: the REPL has read its last line (or runFile has returned); freeVM.
\* The second free() of a pointer is undefined behaviour: the process is
\* killed by the allocator or goes on to exit.
freeVM ==
    /\ pc \in {"idle", "returned"}
    /\ freed' = freed \o freeObjects(heap, Len(heap))
    /\ pc' \in IF FreedTwice(freed') THEN {"exited", "crashed"} ELSE {"exited"}
    /\ UNCHANGED <<heap, strings, globals, stack, stackTop, frames, frameCount, frame,
                   openUpvalues, result, errLog, out, runs, lastOp, permGlobals,
                   taken, calls, marked>>
    /\ UNCHANGED <<compVars, debugVars>>

\* Before compile() is called.
InitParser ==
    /\ source = << >>
    /\ pos = 1
    /\ cpc = "idle"
    /\ cresult = "none"
    /\ compilers = << >>
    /\ parser = [hadError |-> FALSE, panicMode |-> FALSE]
    /\ diagnostics = << >>
    /\ nesting = << >>
    /\ syncing = FALSE
    /\ stores = << >>
    /\ earlier = << >>
    /\ loopLog = << >>

\* No chunk has been handed to the disassembler.
InitDebug ==
    /\ chunk = << >>
    /\ pool = << >>
    /\ starts = << >>
    /\ atOffset = 0
    /\ visited = << >>
    /\ dpc = "emitting"
    /\ lines = << >>
    /\ tokenLines = << >>
    /\ jumpRun = [op |-> 0, before |-> 0, distance |-> 0, target |-> 0, landed |-> 0,
                  errors |-> << >>]
    /\ scanner = [text |-> << >>, beyond |-> << >>, start |-> NULL, current |-> NULL,
                  line |-> 0, token |-> NoToken]
    /\ tokenRun = [tokens |-> << >>, at |-> 0, previous |-> "eof", panicMode |-> FALSE,
                   hadError |-> FALSE, stack |-> << >>, loops |-> {}, stuck |-> {},
                   turns |-> 0, phase |-> "idle"]

Init == InitVM /\ InitParser /\ InitDebug

Next ==
    \/ Interpret
    \/ OpConstant \/ OpNil \/ OpTrue \/ OpFalse \/ OpPop
    \/ OpGetLocal \/ OpSetLocal
    \/ OpGetGlobal \/ OpDefineGlobal \/ OpSetGlobal
    \/ OpGetUpvalue \/ OpSetUpvalue
    \/ OpEqual \/ OpGreater \/ OpLess
    \/ OpAdd \/ OpSubtract \/ OpMultiply \/ OpDivide
    \/ OpNot \/ OpNegate \/ OpPrint
    \/ OpJump \/ OpJumpIfFalse \/ OpLoop
    \/ OpCall \/ OpClosure \/ OpCloseUpvalue \/ OpReturn
    \/ OpNoCase \/ Undefined
    \/ freeVM

vars == <<vmVars, compVars, debugVars>>

Spec == Init /\ [][Next]_vars

(***************************************************************************)
(* The collector (memory.c).  reallocate calls collectGarbage when an       *)
(* allocation grows memory (DEBUG_STRESS_GC); in run() that is in CLOSURE   *)
(* and in the ADD of two strings.  The collection is taken at the first     *)
(* allocation of the instruction, with the roots as they are at that call:  *)
(* concatenate has popped both operands before it allocates the buffer.     *)
(* marked is the set of objects whose isMarked is true; allocateObject      *)
(* clears the bit of a new object, which no id in marked names.             *)
(***************************************************************************)
\* markObject(object): the objects whose bit the call sets.
markObject(object) == IF object = NULL THEN {} ELSE {object}

markValue(value) == IF IS_OBJ(value) THEN markObject(AS_OBJ(value)) ELSE {}

\* markTable: the key and the value of every entry.
markTable(table) ==
    UNION {markObject(key) \cup markValue(table[key]) : key \in DOMAIN table}

\* markRoots, with vm.stackTop at top: the stack below it, the closures of the
\* frames, the open upvalues, the globals; markCompilerRoots finds no compiler
\* while run() executes (current is NULL after endCompiler of the script).
markRoots(top) ==
    UNION {markValue(stack[i]) : i \in 0..(top - 1)}
      \cup UNION {markObject(frames[i].closure) : i \in 0..(frameCount - 1)}
      \cup UNION {markObject(openList(heap, openUpvalues)[i]) :
                     i \in 1..Len(openList(heap, openUpvalues))}
      \cup markTable(globals)

\* The next instruction allocates.
Allocates ==
    \/ Exec(OP_CLOSURE)
    \/ Exec(OP_ADD) /\ IS_STRING(heap, peek(0)) /\ IS_STRING(heap, peek(1))

\* vm.stackTop at the first allocation of the instruction about to run.
AllocationTop == IF Exec(OP_ADD) THEN stackTop - 2 ELSE stackTop

collectGarbage ==
    /\ Allocates
    /\ marked' = marked \cup markRoots(AllocationTop)
    /\ marked' # marked
    /\ UNCHANGED <<heap, strings, globals, stack, stackTop, frames, frameCount, frame,
                   openUpvalues, pc, result, errLog, out, runs, lastOp, permGlobals,
                   taken, calls, freed>>
    /\ UNCHANGED <<compVars, debugVars>>

NextGC == Next \/ collectGarbage

SpecGC == Init /\ [][NextGC]_vars

(***************************************************************************)
(* Properties of the VM.                                                   *)
(***************************************************************************)
OpenIds(h, open) == {openList(h, open)[i] : i \in 1..Len(openList(h, open))}

\* C1: a RETURN step closes every upvalue of the open list whose location is
\* at or above the returning frame's slot base: it is unlinked, its closed
\* field holds the value the stack cell had, its location points at that
\* field; no upvalue left on the list points at or above the base.
ReturnCloses ==
    Exec(OP_RETURN) =>
        /\ \A u \in OpenIds(heap, openUpvalues) :
              heap[u].location[2] >= Fr.slots =>
                 /\ u \notin OpenIds(heap', openUpvalues')
                 /\ heap'[u].location = ClosedPtr(u)
                 /\ heap'[u].closed = stack[heap[u].location[2]]
        /\ \A u \in OpenIds(heap', openUpvalues') :
              /\ heap'[u].location[1] = "stack"
              /\ heap'[u].location[2] < Fr.slots

C1_ReturnClosesUpvalues == [][ReturnCloses]_vars

\* A function has just returned a closure whose captured variable the RETURN
\* closed: the closure on top of the stack owns a non-nil closed value.
C1_Witness ==
    /\ pc = "running"
    /\ lastOp = OP_RETURN
    /\ isObjType(heap, peek(0), "OBJ_CLOSURE")
    /\ \E i \in 1..heap[AS_OBJ(peek(0))].upvalueCount :
          LET u == heap[AS_OBJ(peek(0))].upvalues[i] IN
          /\ heap[u].location = ClosedPtr(u)
          /\ heap[u].closed = NUMBER_VAL(0)
          /\ openUpvalues = NULL

\* The open-upvalue list points at stack cells in strictly decreasing order.
SortedOpen ==
    LET l == openList(heap, openUpvalues) IN
    /\ \A i \in 1..Len(l) : heap[l[i]].location[1] = "stack"
    /\ \A i \in 1..(Len(l) - 1) :
          heap[l[i]].location[2] > heap[l[i + 1]].location[2]

\* A CLOSURE step gives the new closure, for each captured local, the upvalue
\* already open for that cell if there is one and a newly allocated one
\* otherwise; either way it is on the list afterwards.
CaptureShares ==
    Exec(OP_CLOSURE) =>
        LET closure == Len(heap) + 1 IN
        \A i \in 0..(heap'[closure].upvalueCount - 1) :
           CodeAt(Fr.ip + 2 + 2 * i) # 0 =>
              LET slot == Fr.slots + CodeAt(Fr.ip + 3 + 2 * i)
                  was == {u \in OpenIds(heap, openUpvalues) :
                             heap[u].location = StackPtr(slot)}
                  got == heap'[closure].upvalues[i + 1]
              IN /\ got \in OpenIds(heap', openUpvalues')
                 /\ heap'[got].location = StackPtr(slot)
                 /\ was # {} => got \in was
                 /\ was = {} => got > Len(heap)

\* C2: the open-upvalue list is strictly decreasing by stack cell in every
\* reachable state (so no cell has two open upvalues), and captureUpvalue
\* returns the open upvalue of a cell when there is one, else inserts one.
C2_OpenUpvaluesSorted == []SortedOpen /\ [][CaptureShares]_vars

\* Three upvalues are open, and two closures share one of them.
C2_Witness ==
    /\ Len(openList(heap, openUpvalues)) >= 3
    /\ \E c1, c2 \in 1..Len(heap) :
          /\ c1 # c2
          /\ heap[c1].type = "OBJ_CLOSURE"
          /\ heap[c2].type = "OBJ_CLOSURE"
          /\ \E i \in 1..heap[c1].upvalueCount, j \in 1..heap[c2].upvalueCount :
                /\ heap[c1].upvalues[i] = heap[c2].upvalues[j]
                /\ heap[c1].upvalues[i] \in OpenIds(heap, openUpvalues)

\* C3: a step that reports a runtime error ends the run: interpret returns
\* INTERPRET_RUNTIME_ERROR with the value stack, the frame stack and the
\* open-upvalue list empty, and no further instruction executes.
ErrorHalts ==
    Len(errLog') > Len(errLog) =>
        /\ pc' = "returned"
        /\ result' = INTERPRET_RUNTIME_ERROR
        /\ stackTop' = 0
        /\ frameCount' = 0
        /\ openUpvalues' = NULL

C3_RuntimeErrorHalts == [][ErrorHalts]_vars

\* C5: CALL on a closure pushes a frame only if argCount equals the arity;
\* the frame pushed is exactly one, based at the callee's cell
\* stackTop - argCount - 1, with ip at the first byte of the chunk; on an
\* arity mismatch a runtime error is raised and no frame is pushed.
CallPushesFrame ==
    (Exec(OP_CALL) /\ isObjType(heap, peek(CodeAt(Fr.ip + 1)), "OBJ_CLOSURE")) =>
        LET argCount == CodeAt(Fr.ip + 1)
            closure == AS_OBJ(peek(argCount))
            arity == heap[heap[closure].function].arity
        IN /\ frameCount' > frameCount =>
                /\ argCount = arity
                /\ frameCount' = frameCount + 1
                /\ frames'[frameCount] = [closure |-> closure, ip |-> 0,
                                          slots |-> stackTop - argCount - 1]
                /\ frame' = frameCount
                /\ \A i \in 0..(frameCount - 1) : frames'[i].slots = frames[i].slots
                /\ UNCHANGED <<stack, stackTop, errLog, pc>>
           /\ argCount # arity =>
                /\ errLog' = Append(errLog, "Expected %d arguments but got %d.")
                /\ frameCount' = 0
                /\ pc' = "returned"
                /\ result' = INTERPRET_RUNTIME_ERROR
           /\ (argCount = arity /\ frameCount < FRAMES_MAX) => frameCount' = frameCount + 1

C5_CallChecksArity == [][CallPushesFrame]_vars

\* A one-argument call has just pushed its frame: slot 0 is the callee, slot
\* 1 the argument.
C5_Witness ==
    /\ pc = "running"
    /\ lastOp = OP_CALL
    /\ frameCount = 2
    /\ Fr.ip = 0
    /\ FrFunction.arity = 1
    /\ Fr.slots = stackTop - 2
    /\ stack[Fr.slots] = OBJ_VAL(Fr.closure)

\* A closure call made while FRAMES_MAX frames are active reports
\* 'Stack overflow.' and pushes nothing.
OverflowReported ==
    (/\ Exec(OP_CALL)
     /\ isObjType(heap, peek(CodeAt(Fr.ip + 1)), "OBJ_CLOSURE")
     /\ CodeAt(Fr.ip + 1) = heap[heap[AS_OBJ(peek(CodeAt(Fr.ip + 1)))].function].arity
     /\ frameCount = FRAMES_MAX) =>
        /\ errLog' = Append(errLog, "Stack overflow.")
        /\ frameCount' = 0
        /\ result' = INTERPRET_RUNTIME_ERROR

\* C6: frameCount never exceeds FRAMES_MAX (64); the call that would make the
\* 65th frame raises 'Stack overflow.' instead.
C6_FrameCountBounded == [](frameCount <= FRAMES_MAX) /\ [][OverflowReported]_vars

\* The recursion reached 64 frames and the next call was refused.
C6_Witness ==
    /\ pc = "returned"
    /\ Len(errLog) > 0
    /\ errLog[Len(errLog)] = "Stack overflow."
    /\ frames[FRAMES_MAX - 1].closure # NULL

\* C7: a global defined by DEFINE_GLOBAL_PERM stays bound to the value it was
\* defined with.
C7_PermGlobalKeepsValue ==
    \A name \in DOMAIN permGlobals :
        /\ tableHas(globals, name)
        /\ globals[name] = permGlobals[name]

\* The message of callValue's last line.
NotCallableMessage == "Can only call functions and classes."

\* A CALL whose callee is neither a closure nor a native ends the run with
\* the message and INTERPRET_RUNTIME_ERROR; no frame is pushed.
NotCallableFails ==
    (/\ Exec(OP_CALL)
     /\ ~isObjType(heap, peek(CodeAt(Fr.ip + 1)), "OBJ_CLOSURE")
     /\ ~isObjType(heap, peek(CodeAt(Fr.ip + 1)), "OBJ_NATIVE")) =>
        /\ errLog' = Append(errLog, NotCallableMessage)
        /\ frameCount' <= frameCount
        /\ \A i \in 0..(frameCount - 1) : frames'[i].closure = frames[i].closure
        /\ pc' = "returned"
        /\ result' = INTERPRET_RUNTIME_ERROR

\* C16: a CALL on a value that is not callable (nil, a boolean, a number,
\* a string) raises 'Can only call functions and classes.', pushes no frame
\* and makes interpret return the runtime-error status.
C16_NotCallableFails == [][NotCallableFails]_vars

\* The call of a string with one argument has ended the run.
C16_Witness ==
    /\ pc = "returned"
    /\ lastOp = OP_CALL
    /\ result = INTERPRET_RUNTIME_ERROR
    /\ errLog = <<NotCallableMessage>>
    /\ IS_STRING(heap, stack[1])

\* The script running, or last run, is the one compiled from prog.
ScriptIs(prog) ==
    /\ frames[0].closure # NULL
    /\ heap[heap[frames[0].closure].function].code = prog[1].code

\* The RETURN about to execute matches the CALL calls ends with.
MatchingReturn ==
    /\ Exec(OP_RETURN)
    /\ calls # << >>
    /\ frameCount = Len(calls) + 1

\* The cells below the callee of the CALL c.
BelowCallee(c) == StackLo..(c.stackTop - c.argCount - 2)

\* What the matching RETURN leaves of the CALL c: one result in the place of
\* the callee and its arguments, and the caller's frame current again, at
\* the instruction after the CALL.
ReturnResumes(c) ==
    /\ stackTop' = c.stackTop - c.argCount
    /\ stack'[stackTop' - 1] = peek(0)
    /\ frameCount' = frameCount - 1
    /\ frame' = c.frame
    /\ frames'[frame'].closure = frames[c.frame].closure
    /\ frames'[frame'].ip = c.ip + 2
    /\ frames'[frame'].slots = frames[c.frame].slots

\* A CALL of a native replaces callee and arguments by one result, and the
\* frame goes on after the CALL.
NativeCallEffect ==
    (Exec(OP_CALL) /\ isObjType(heap, peek(CodeAt(Fr.ip + 1)), "OBJ_NATIVE")) =>
        /\ stackTop' = stackTop - CodeAt(Fr.ip + 1)
        /\ stack'[stackTop' - 1] \in ClockValues
        /\ \A i \in StackLo..(stackTop' - 2) : stack'[i] = stack[i]
        /\ frameCount' = frameCount
        /\ frame' = frame
        /\ frames' = [frames EXCEPT ![frame].ip = Fr.ip + 2]
        /\ pc' = "running"

\* C18 as stated: when a call is complete the cells below the callee hold
\* what they held at the CALL.
CompletedCallKeepsBelow ==
    /\ NativeCallEffect
    /\ MatchingReturn =>
          /\ ReturnResumes(calls[Len(calls)])
          /\ \A i \in BelowCallee(calls[Len(calls)]) :
                 stack'[i] = calls[Len(calls)].stack[i]

C18_CompletedCallKeepsBelow == [][CompletedCallKeepsBelow]_vars

\* The cell i belongs to a variable the running closure has captured and
\* that is still on the stack.
CapturedCell(i) ==
    \E n \in 1..heap[Fr.closure].upvalueCount :
        /\ heap[Fr.closure].upvalues[n] # NULL
        /\ heap[heap[Fr.closure].upvalues[n]].location = <<"stack", i>>

\* While a call is in progress a cell below its callee changes only by a
\* SET_UPVALUE through an upvalue that is open on that cell.
BelowChangesByUpvalue ==
    (pc = "running" /\ calls # << >> /\ frameCount = Len(calls) + 1) =>
        \A i \in BelowCallee(calls[Len(calls)]) :
            stack'[i] # stack[i] =>
                /\ Exec(OP_SET_UPVALUE)
                /\ CapturedCell(i)
                /\ stack'[i] = peek(0)

CompletedCallEffect ==
    /\ NativeCallEffect
    /\ MatchingReturn => ReturnResumes(calls[Len(calls)])
    /\ BelowChangesByUpvalue

\* C18 (amended): a completed call replaces the callee and its N arguments
\* by exactly one result and the caller resumes after the CALL; the cells
\* below the callee are unchanged by the CALL and the RETURN, and by the body
\* except those of variables the callee has captured and assigns.
C18_CompletedCallEffect == [][CompletedCallEffect]_vars

\* A call of two frames' depth has returned to the script.
C18_Witness ==
    /\ pc = "running"
    /\ lastOp = OP_RETURN
    /\ frameCount = 1
    /\ calls = << >>
    /\ ScriptIs(ProgShare)
    /\ stack[1] = NUMBER_VAL(2)

\* clock() has returned to the script.
C18_WitnessNative ==
    /\ pc = "running"
    /\ lastOp = OP_CALL
    /\ frameCount = 1
    /\ stack[stackTop - 1] \in ClockValues

\* C17: a CALL on a class value puts a new instance in the callee slot (and
\* calls init if the class has one; without init it succeeds when argCount
\* is 0).  For "class A {} A();" that is: the run stays defined, the CALL of
\* A leaves an instance on top of the stack, and the run ends with
\* INTERPRET_OK.
C17_ClassCallMakesInstance ==
    ScriptIs(ProgClass) =>
        /\ pc \notin {"crashed", "undefined"}
        /\ (pc = "running" /\ lastOp = OP_CALL) =>
               isObjType(heap, stack[stackTop - 1], "OBJ_INSTANCE")
        /\ pc = "returned" => result = INTERPRET_OK

\* The name operand of the instruction about to execute.
NameOperand == AS_OBJ(ConstantAt(CodeAt(Fr.ip + 1)))

UndefinedVariableMessage == "Undefined variable '%s'."

\* SET_GLOBAL of a name without binding: the error, and still no binding.
SetUnboundFails ==
    (Exec(OP_SET_GLOBAL) /\ ~tableHas(globals, NameOperand)) =>
        /\ errLog' = Append(errLog, UndefinedVariableMessage)
        /\ pc' = "returned"
        /\ result' = INTERPRET_RUNTIME_ERROR
        /\ globals' = globals

\* SET_GLOBAL of a bound name: the binding is replaced by the value on top
\* of the stack, which stays there.
SetBoundAssigns ==
    (Exec(OP_SET_GLOBAL) /\ tableHas(globals, NameOperand)) =>
        /\ globals' = [globals EXCEPT ![NameOperand] = peek(0)]
        /\ stack' = stack
        /\ stackTop' = stackTop
        /\ errLog' = errLog
        /\ pc' = "running"
        /\ frames' = [frames EXCEPT ![frame].ip = Fr.ip + 2]

\* GET_GLOBAL of a name without binding fails with the same message.
GetUnboundFails ==
    (Exec(OP_GET_GLOBAL) /\ ~tableHas(globals, NameOperand)) =>
        /\ errLog' = Append(errLog, UndefinedVariableMessage)
        /\ pc' = "returned"
        /\ result' = INTERPRET_RUNTIME_ERROR

\* C19: SET_GLOBAL on a name that has no binding raises the runtime error
\* 'Undefined variable' and leaves the globals table without a binding for
\* that name (a later GET_GLOBAL of the name still fails); on a bound name it
\* replaces the value and leaves the assigned value on the stack.
C19_SetGlobalNeedsBinding ==
    [][SetUnboundFails /\ SetBoundAssigns /\ GetUnboundFails]_vars

\* "y = 1;" has failed and, on the next line, "print y;" has failed too.
C19_Witness ==
    /\ pc = "returned"
    /\ runs = 2
    /\ lastOp = OP_GET_GLOBAL
    /\ ScriptIs(ProgGetUndefined)
    /\ \E o \in 1..Len(heap) :
          /\ isObjType(heap, OBJ_VAL(o), "OBJ_FUNCTION")
          /\ heap[o].code = ProgSetUndefined[1].code
    /\ errLog = <<UndefinedVariableMessage, UndefinedVariableMessage>>
    /\ result = INTERPRET_RUNTIME_ERROR

\* An assignment to a bound global has been executed.
C19_WitnessBound ==
    /\ pc = "running"
    /\ lastOp = OP_SET_GLOBAL
    /\ ScriptIs(ProgFlow)

\* The objects an object refers to: a closure its function and its upvalues,
\* a function its name and the objects among its constants, an upvalue the
\* object it holds once closed.
References(o) ==
    IF heap[o].type = "OBJ_CLOSURE"
    THEN {heap[o].function}
           \cup ({heap[o].upvalues[i] : i \in 1..heap[o].upvalueCount} \ {NULL})
    ELSE IF heap[o].type = "OBJ_FUNCTION"
    THEN ({heap[o].name} \ {NULL})
           \cup {AS_OBJ(heap[o].constants[i]) :
                   i \in {j \in 1..Len(heap[o].constants) : IS_OBJ(heap[o].constants[j])}}
    ELSE IF heap[o].type = "OBJ_UPVALUE"
    THEN IF IS_OBJ(heap[o].closed) THEN {AS_OBJ(heap[o].closed)} ELSE {}
    ELSE {}

RECURSIVE Reachable(_)
\* The objects reachable from those of from through any chain of references.
Reachable(from) ==
    IF (UNION {References(o) : o \in from}) \subseteq from
    THEN from
    ELSE Reachable(from \cup UNION {References(o) : o \in from})

\* A step of collectGarbage leaves every object reachable from the roots
\* marked.
MarksReachable ==
    (marked' # marked) => Reachable(markRoots(AllocationTop)) \subseteq marked'

\* C20: at the end of the mark phase of collectGarbage every object reachable
\* from the roots through any chain of references (closure to function to
\* constants, closure to upvalues, upvalue to closed value, table keys and
\* values) has its mark bit set, not only those a root refers to directly.
C20_MarksReachable == [][MarksReachable]_vars

\* The objects the instruction about to run still uses after its first
\* allocation: concatenate reads both operand strings into the new buffer,
\* CLOSURE wraps the function.
NeededAfterAllocation ==
    IF Exec(OP_ADD)
    THEN {AS_OBJ(peek(0)), AS_OBJ(peek(1))}
    ELSE {AS_OBJ(ConstantAt(CodeAt(Fr.ip + 1)))}

\* C21: at every allocation point each object the running operation still
\* needs is reachable from the GC roots; in particular the two operand
\* strings of concatenate while the result buffer is allocated.
C21_NeededObjectsRooted ==
    Allocates => NeededAfterAllocation \subseteq Reachable(markRoots(AllocationTop))

\* How often the allocation a has been passed to free().
Frees(a) == Cardinality({i \in 1..Len(freed) : freed[i] = a})

\* The allocations that belong to the object o.
Owned(o) ==
    {Allocation("object", o)}
      \cup (IF heap[o].type = "OBJ_STRING" THEN {Allocation("chars", o)} ELSE {})
      \cup (IF heap[o].type = "OBJ_CLOSURE" THEN {Allocation("upvalues", o)} ELSE {})
      \cup (IF heap[o].type = "OBJ_FUNCTION" THEN {Allocation("code", o)} ELSE {})

\* C22: freeObject releases every allocation belonging to an object exactly
\* once, for every object type: after freeVM every object on the allocation
\* list, and every buffer it owns, has been freed once and none twice.
C22_FreedExactlyOnce ==
    pc = "exited" => \A o \in 1..Len(heap) : \A a \in Owned(o) : Frees(a) = 1

Closures(h) == {o \in 1..Len(h) : h[o].type = "OBJ_CLOSURE"}

\* The upvalue array of closure o has as many entries as its function has
\* upvalues, and upvalueCount says so.
ArrayMatchesFunction(h, o) ==
    /\ Len(h[o].upvalues) = h[h[o].function].upvalueCount
    /\ h[o].upvalueCount = h[h[o].function].upvalueCount

\* C26: every closure has an upvalue array of exactly its function's
\* upvalueCount entries, and no step changes the count or the length of the
\* array of a closure.
C26_ClosureArrayFixed ==
    /\ [](\A o \in Closures(heap) : ArrayMatchesFunction(heap, o))
    /\ [][\A o \in Closures(heap) :
             /\ o \in Closures(heap')
             /\ heap'[o].upvalueCount = heap[o].upvalueCount
             /\ Len(heap'[o].upvalues) = Len(heap[o].upvalues)
             /\ heap'[o].function = heap[o].function]_vars

\* OP_CLOSURE has made a closure over two upvalues and filled both.
C26_Witness ==
    /\ lastOp = OP_CLOSURE
    /\ \E o \in Closures(heap) :
          /\ heap[o].upvalueCount = 2
          /\ \A i \in 1..2 : heap[o].upvalues[i] # NULL

\* The values the language takes for false.
NilOrFalse == {NIL_VAL, BOOL_VAL(FALSE)}

\* C27: NOT pushes true exactly when its operand is nil or false, so the
\* number 0 and the empty string give false; JUMP_IF_FALSE adds its operand
\* to ip on exactly the same values and leaves the stack as it is.
C27_OnlyNilAndFalseAreFalsey ==
    [][/\ Exec(OP_NOT) =>
            /\ stackTop' = stackTop
            /\ stack'[stackTop' - 1] = BOOL_VAL(peek(0) \in NilOrFalse)
       /\ Exec(OP_JUMP_IF_FALSE) =>
            /\ frames'[frame].ip = IF peek(0) \in NilOrFalse
                                   THEN Fr.ip + 3 + READ_SHORT
                                   ELSE Fr.ip + 3
            /\ stack' = stack /\ stackTop' = stackTop]_vars

\* print !0; has printed false, print !""; false and print !nil; true, and
\* the three if statements have printed 1 for 0 and "" and nothing for nil.
C27_Witness ==
    /\ pc = "returned"
    /\ ScriptIs(ProgTruthy)
    /\ Len(out) >= 5
    /\ SubSeq(out, Len(out) - 4, Len(out)) =
          <<BOOL_VAL(FALSE), BOOL_VAL(FALSE), BOOL_VAL(TRUE), NUMBER_VAL(1),
            NUMBER_VAL(1)>>

Upvalues(h) == {o \in 1..Len(h) : h[o].type = "OBJ_UPVALUE"}

\* The upvalue the instruction about to execute names.
UpvalueOperand == heap[Fr.closure].upvalues[CodeAt(Fr.ip + 1) + 1]

\* The stack cell the instruction about to execute names.
LocalOperand == Fr.slots + CodeAt(Fr.ip + 1)

\* After the step the cell of upvalue u holds what it held, or value if u is
\* one of written.
CellsAfter(written, value) ==
    \A u \in Upvalues(heap) :
       Deref(heap', stack', u) = IF u \in written THEN value ELSE Deref(heap, stack, u)

\* A read pushes what the cell holds; a write changes the cell it names, seen
\* through the upvalue and, while that is open, through the local; no other
\* step, closing included, changes what a cell holds.
SharedCellStep ==
    /\ Exec(OP_GET_UPVALUE) =>
          stack'[stackTop' - 1] = Deref(heap, stack, UpvalueOperand)
    /\ Exec(OP_GET_LOCAL) =>
          /\ stack'[stackTop' - 1] = stack[LocalOperand]
          /\ \A u \in Upvalues(heap) :
                heap[u].location = StackPtr(LocalOperand) =>
                   stack'[stackTop' - 1] = Deref(heap, stack, u)
    /\ CASE Exec(OP_SET_UPVALUE) -> CellsAfter({UpvalueOperand}, peek(0))
         [] Exec(OP_SET_LOCAL) ->
               CellsAfter({u \in Upvalues(heap) :
                              heap[u].location = StackPtr(LocalOperand)}, peek(0))
         [] OTHER -> CellsAfter({}, NIL_VAL)

\* C30: a captured variable is one cell shared by its local and every
\* closure that captured it: a read through GET_LOCAL or GET_UPVALUE gives
\* the value of the last write through SET_LOCAL or SET_UPVALUE, while the
\* upvalue is open and after it is closed.
C30_CapturedCellShared ==
    /\ [][SharedCellStep]_vars
    /\ [](\A u, v \in Upvalues(heap) :
             (heap[u].location = heap[v].location /\ u \in OpenIds(heap, openUpvalues)
              /\ v \in OpenIds(heap, openUpvalues)) => u = v)

\* The counter has printed 1 and 2: inc read through its closed upvalue what
\* its earlier call wrote.
C30_Witness ==
    /\ pc = "returned"
    /\ ScriptIs(ProgCounter)
    /\ result = INTERPRET_OK
    /\ Len(out) >= 2
    /\ SubSeq(out, Len(out) - 1, Len(out)) = <<NUMBER_VAL(1), NUMBER_VAL(2)>>

\* print f(); of ProgShare has printed the 2 that g wrote through the open
\* upvalue it shares with f.
C30_WitnessOpen ==
    /\ ScriptIs(ProgShare)
    /\ lastOp = OP_PRINT
    /\ out # << >>
    /\ out[Len(out)] = NUMBER_VAL(2)

\* The script is about to return and no runtime error was reported.
ScriptEnds ==
    /\ Exec(OP_RETURN)
    /\ frameCount = 1
    /\ errLog = << >>

\* C31: the code of a statement that declares no local has net stack effect
\* zero, and that of an expression plus one: at the RETURN endCompiler emits
\* behind the statements of a script, reached without a runtime error, the
\* stack holds the script's own slot and the nil that is returned.
C31_StatementsLeaveStack == ScriptEnds => stackTop = 2

\* The closures the globals hold.
GlobalClosures ==
    {AS_OBJ(globals[k]) : k \in {g \in DOMAIN globals :
                                    isObjType(heap, globals[g], "OBJ_CLOSURE")}}

\* The upvalues of the closures the globals hold.
GlobalUpvalues ==
    {u \in Upvalues(heap) :
        \E c \in GlobalClosures : \E i \in 1..Len(heap[c].upvalues) :
           heap[c].upvalues[i] = u}

\* C36: no closure that is still reachable when interpret has returned holds
\* an upvalue whose location is a cell of the value stack: the upvalues of a
\* frame a runtime error discarded have been closed too.
C36_UpvaluesClosedAtReturn ==
    pc = "returned" => \A u \in GlobalUpvalues : heap[u].location[1] # "stack"

\* vm.h: the number of Values of vm.stack.
STACK_MAX == FRAMES_MAX * UINT8_COUNT

\* C37: vm.stackTop stays within the stack array, between vm.stack and
\* vm.stack + STACK_MAX: no push moves it beyond the end and no pop moves
\* it below the base.
C37_StackTopWithinArray == stackTop >= 0 /\ stackTop <= STACK_MAX

\* C38: when an interpret call returns, with whatever status, the VM is
\* back in its initial configuration: the value stack is empty, there is no
\* call frame and the list of open upvalues is empty.
C38_VMEmptyAtReturn ==
    pc = "returned" => (stackTop = 0 /\ frameCount = 0 /\ openUpvalues = NULL)

\* C39: every opcode compile() can emit has a case in the dispatch loop of
\* run(), which reads exactly the operand bytes emitted with it: the byte
\* run() is about to dispatch on is always an opcode its switch handles.
C39_DispatchedOpcodeHasCase ==
    (pc = "running" /\ InstrDefined) => CodeAt(Fr.ip) \in HandledOps

(***************************************************************************)
(* The interner driven by arbitrary sequences of expression statements on  *)
(* the state initVM leaves: a string literal (compiler.c string() ->       *)
(* copyString, then OP_CONSTANT and OP_POP), or the sum of two strings     *)
(* that variables or literals hold (OP_ADD -> concatenate -> takeString,   *)
(* then OP_POP).  The popped cells keep their last contents.               *)
(***************************************************************************)
Alphabet == {97, 98}

RECURSIVE CharsOfLen(_)
CharsOfLen(n) ==
    IF n = 0 THEN {<< >>}
    ELSE {Append(c, b) : c \in CharsOfLen(n - 1), b \in Alphabet}

Literals == UNION {CharsOfLen(n) : n \in 0..MaxStrLen}

StringIds(h) == {i \in 1..Len(h) : h[i].type = "OBJ_STRING"}

internVars == <<globals, stackTop, frames, frameCount, frame, openUpvalues, pc,
                result, errLog, out, runs, permGlobals>>

InternLiteral ==
    /\ \E chars \in Literals :
          LET r == copyString(heap, strings, chars) IN
          /\ Len(r.heap) <= Len(InitVMHeap) + MaxStrings
          /\ heap' = r.heap
          /\ strings' = r.strings
          /\ stack' = pushOn(stack, stackTop, OBJ_VAL(r.ret))
    /\ lastOp' = OP_CONSTANT
    /\ UNCHANGED <<taken, calls, marked, freed>>
    /\ UNCHANGED internVars
    /\ UNCHANGED <<compVars, debugVars>>

InternConcat ==
    /\ \E a, b \in StringIds(heap) :
          LET operands == pushOn(pushOn(stack, stackTop, OBJ_VAL(a)),
                                 stackTop + 1, OBJ_VAL(b))
              r == concatenate(heap, strings, AS_OBJ(operands[stackTop]),
                               AS_OBJ(operands[stackTop + 1]))
          IN /\ r.heap[r.ret].length <= MaxStrLen
             /\ Len(r.heap) <= Len(InitVMHeap) + MaxStrings
             /\ heap' = r.heap
             /\ strings' = r.strings
             /\ stack' = pushOn(operands, stackTop, OBJ_VAL(r.ret))
             /\ taken' = IF r.ret > Len(heap) THEN taken \cup {r.ret} ELSE taken
    /\ lastOp' = OP_ADD
    /\ UNCHANGED <<calls, marked, freed>>
    /\ UNCHANGED internVars
    /\ UNCHANGED <<compVars, debugVars>>

NextIntern == InternLiteral \/ InternConcat

SpecIntern == Init /\ [][NextIntern]_vars

\* Two string objects are the same object exactly when they have the same
\* length and bytes, and every string is a key of vm.strings.
InternUnique ==
    /\ \A i, j \in StringIds(heap) :
          (i = j) <=> (heap[i].length = heap[j].length /\ heap[i].chars = heap[j].chars)
    /\ StringIds(heap) = DOMAIN strings

\* A literal whose bytes some string already has is that very object.
LiteralIsExisting ==
    lastOp' = OP_CONSTANT =>
        \A i \in StringIds(heap) :
           heap[i].chars = heap'[AS_OBJ(stack'[stackTop'])].chars =>
              stack'[stackTop'] = OBJ_VAL(i)

\* C4: after any sequence of copyString, takeString and concatenations, two
\* strings are the same object iff they have the same length and bytes, the
\* intern table holds no two equal strings, and the result of a
\* concatenation is the object a later literal with the same bytes yields.
C4_StringsInterned == []InternUnique /\ [][LiteralIsExisting]_vars

\* A literal has just yielded a two-byte string that a concatenation, not
\* a literal, had allocated.
C4_Witness ==
    /\ lastOp = OP_CONSTANT
    /\ IS_STRING(heap, stack[stackTop])
    /\ AS_OBJ(stack[stackTop]) \in taken
    /\ heap[AS_OBJ(stack[stackTop])].length = 2

(***************************************************************************)
(* The compiler (compiler.c).  The token stream is taken one statement at  *)
(* a time.  A statement is a tuple:                                        *)
(*   <<"var", n, e>>   var n = e;        <<"perm", n, e>>   perm n = e;    *)
(*   <<"expr", e>>     e;                <<"fun", n, ps>>   fun n(ps) {    *)
(*   <<"{">>  <<"}">>  <<"while">> (while (true) {)  <<"break">>           *)
(*   <<"continue">>                                                        *)
(* and an expression e is one of                                           *)
(*   <<"num">>  0      <<"get", n>>  n      <<"set", n>>  n = 0            *)
(*   <<"getset", r, t>>   r + (t = 0)                                      *)
(* The operators below thread k, the record of what the compiler's         *)
(* functions read and write: the Compiler chain, the parser flags, the     *)
(* messages printed, the stores emitted.                                   *)
(***************************************************************************)
LocalCells == 5     \* cells of Compiler.locals the model follows

UINT16_MAX == 65535
TYPE_FUNCTION == 0
TYPE_SCRIPT == 3

\* A cell of locals[] no code has written: the struct lives on the C stack.
IndeterminateLocal ==
    [name |-> "?", depth |-> 0, isCaptured |-> FALSE, isPerm |-> "indeterminate"]

K == [compilers |-> compilers, hadError |-> parser.hadError,
      panicMode |-> parser.panicMode, diagnostics |-> diagnostics,
      stores |-> stores, loopLog |-> loopLog]

Top(k) == Len(k.compilers)
Cur(k) == k.compilers[Top(k)]

\* An errorAt without the panicMode test.
errorAlways(k, message) ==
    [k EXCEPT !.panicMode = TRUE,
              !.diagnostics = Append(@, message),
              !.hadError = TRUE]

\* errorAt, through error and errorAtCurrent.
error(k, message) ==
    IF k.panicMode THEN k
    ELSE [k EXCEPT !.panicMode = TRUE,
                   !.diagnostics = Append(@, message),
                   !.hadError = TRUE]

emitByte(k, byte) == [k EXCEPT !.compilers[Top(k)].code = Append(@, byte)]

emitBytes(k, byte1, byte2) == emitByte(emitByte(k, byte1), byte2)

emitLoop(k, loopStart) ==
    LET k1 == emitByte(k, OP_LOOP)
        offset == Len(Cur(k1).code) - loopStart + 2
        k2 == IF offset > UINT16_MAX THEN error(k1, "Loop body too large.") ELSE k1
    IN emitByte(emitByte(k2, (offset \div 256) % 256), offset % 256)

\* emitJump: the result's ret is the offset of the placeholder.
emitJump(k, instruction) ==
    LET k1 == emitByte(emitByte(emitByte(k, instruction), 255), 255)
    IN [k |-> k1, ret |-> Len(Cur(k1).code) - 2]

emitReturn(k) == emitByte(emitByte(k, OP_NIL), OP_RETURN)

\* chunk.c's addConstant is not part of the sources: it appends the value
\* and returns its index.  A constant is shown by its contents.
makeConstant(k, value) ==
    LET constant == Len(Cur(k).constants)
        k1 == [k EXCEPT !.compilers[Top(k)].constants = Append(@, value)]
    IN IF constant > UINT8_COUNT - 1
       THEN [k |-> error(k1, "Too many constants in one chunk."), ret |-> 0]
       ELSE [k |-> k1, ret |-> constant]

emitConstant(k, value) ==
    LET c == makeConstant(k, value) IN emitBytes(c.k, OP_CONSTANT, c.ret)

\* A patchJump that stores the low byte of the distance first.
patchJumpLowFirst(k, offset) ==
    LET jump == Len(Cur(k).code) - offset - 2
        k1 == IF jump > UINT16_MAX THEN error(k, "Too much code to jump over.") ELSE k
    IN [k1 EXCEPT !.compilers[Top(k)].code[offset + 1] = jump % 256,
                  !.compilers[Top(k)].code[offset + 2] = (jump \div 256) % 256]

patchJump(k, offset) ==
    LET jump == Len(Cur(k).code) - offset - 2
        k1 == IF jump > UINT16_MAX THEN error(k, "Too much code to jump over.") ELSE k
    IN [k1 EXCEPT !.compilers[Top(k)].code[offset + 1] = (jump \div 256) % 256,
                  !.compilers[Top(k)].code[offset + 2] = jump % 256]

\* initCompiler: the new Compiler becomes current; slot 0 is reserved and its
\* isPerm is left unwritten.
initCompiler(k, type, name) ==
    [k EXCEPT !.compilers = Append(@,
        [type |-> type, name |-> name, arity |-> 0,
         locals |-> [i \in 0..(LocalCells - 1) |->
                       IF i = 0
                       THEN [name |-> IF type # TYPE_FUNCTION THEN "this" ELSE "",
                             depth |-> 0, isCaptured |-> FALSE,
                             isPerm |-> "indeterminate"]
                       ELSE IndeterminateLocal],
         localCount |-> 1, upvalues |-> << >>, scopeDepth |-> 0,
         loops |-> << >>, code |-> << >>, constants |-> << >>])]

\* endCompiler: ret is the finished function, current its enclosing compiler.
endCompiler(k) ==
    LET k1 == emitReturn(k)
        c == Cur(k1)
    IN [k |-> [k1 EXCEPT !.compilers = SubSeq(@, 1, Len(@) - 1)],
        ret |-> [name |-> c.name, arity |-> c.arity,
                 upvalueCount |-> Len(c.upvalues), upvalues |-> c.upvalues,
                 code |-> c.code, constants |-> c.constants]]

beginScope(k) == [k EXCEPT !.compilers[Top(k)].scopeDepth = @ + 1]

RECURSIVE endScopeLoop(_)
endScopeLoop(k) ==
    LET c == Cur(k) IN
    IF c.localCount > 0 /\ c.locals[c.localCount - 1].depth > c.scopeDepth
    THEN LET k1 == IF c.locals[c.localCount - 1].isCaptured
                   THEN emitByte(k, OP_CLOSE_UPVALUE)
                   ELSE emitByte(k, OP_POP)
         IN endScopeLoop([k1 EXCEPT !.compilers[Top(k)].localCount = @ - 1])
    ELSE k

endScope(k) == endScopeLoop([k EXCEPT !.compilers[Top(k)].scopeDepth = @ - 1])

identifierConstant(k, name) == makeConstant(k, <<"string", name>>)

\* resolveLocal on the compiler at position ci of the chain.
resolveLocal(k, ci, name) ==
    LET c == k.compilers[ci]
        hits == {i \in 0..(c.localCount - 1) : c.locals[i].name = name}
    IN IF hits = {} THEN [k |-> k, ret |-> 0 - 1]
       ELSE LET i == CHOOSE h \in hits : \A g \in hits : g <= h IN
            [k |-> IF c.locals[i].depth = 0 - 1
                   THEN error(k, "Can't read local variable in its own initializer.")
                   ELSE k,
             ret |-> i]

\* discardLocals with current->loop set.
RECURSIVE discardLocalsLoop(_, _)
discardLocalsLoop(k, i) ==
    LET c == Cur(k) IN
    IF i >= 0 /\ c.locals[i].depth > c.loops[Len(c.loops)].scopeDepth
    THEN discardLocalsLoop(IF c.locals[i].isCaptured
                           THEN emitByte(k, OP_CLOSE_UPVALUE)
                           ELSE emitByte(k, OP_POP),
                           i - 1)
    ELSE k

discardLocals(k) == discardLocalsLoop(k, Cur(k).localCount - 1)

addUpvalue(k, ci, index, isLocal) ==
    LET c == k.compilers[ci]
        upvalueCount == Len(c.upvalues)
        hits == {i \in 0..(upvalueCount - 1) :
                    c.upvalues[i + 1].index = index /\ c.upvalues[i + 1].isLocal = isLocal}
    IN IF hits # {} THEN [k |-> k, ret |-> CHOOSE h \in hits : \A g \in hits : h <= g]
       ELSE IF upvalueCount = UINT8_COUNT
       THEN [k |-> error(k, "Too many closure variables in function."), ret |-> 0]
       ELSE [k |-> [k EXCEPT !.compilers[ci].upvalues =
                               Append(@, [index |-> index, isLocal |-> isLocal])],
             ret |-> upvalueCount]

RECURSIVE resolveUpvalue(_, _, _)
RECURSIVE upvalueFromLocal(_, _, _)

\* resolveUpvalue once the enclosing function's upvalues were searched.
upvalueFromEnclosing(upvalue, ci) ==
    IF upvalue.ret # 0 - 1
    THEN addUpvalue(upvalue.k, ci, upvalue.ret, FALSE)
    ELSE upvalue

\* resolveUpvalue once the enclosing function's locals were searched.
upvalueFromLocal(local, ci, name) ==
    IF local.ret # 0 - 1
    THEN addUpvalue([local.k EXCEPT
                        !.compilers[ci - 1].locals[local.ret].isCaptured = TRUE],
                    ci, local.ret, TRUE)
    ELSE upvalueFromEnclosing(resolveUpvalue(local.k, ci - 1, name), ci)

resolveUpvalue(k, ci, name) ==
    IF ci = 1 THEN [k |-> k, ret |-> 0 - 1]
    ELSE upvalueFromLocal(resolveLocal(k, ci - 1, name), ci, name)

addLocal(k, name, isPerm) ==
    IF Cur(k).localCount = UINT8_COUNT
    THEN error(k, "Too many local variables in function.")
    ELSE [k EXCEPT !.compilers[Top(k)].locals[Cur(k).localCount] =
                      [name |-> name, depth |-> 0 - 1, isCaptured |-> FALSE,
                       isPerm |-> IF isPerm THEN "true" ELSE "false"],
                   !.compilers[Top(k)].localCount = @ + 1]

\* The loop of declareVariable, from local i downwards.
RECURSIVE declareScan(_, _, _)
declareScan(k, i, name) ==
    LET c == Cur(k) IN
    IF i < 0 THEN k
    ELSE IF c.locals[i].depth # 1 /\ c.locals[i].depth < c.scopeDepth THEN k
    ELSE declareScan(IF c.locals[i].name = name
                     THEN error(k, "Already a variable with this name in this scope.")
                     ELSE k,
                     i - 1, name)

\* A declareVariable that does not look at the locals declared before.
declareVariableNoScan(k, name, isPerm) ==
    IF Cur(k).scopeDepth = 0 THEN k ELSE addLocal(k, name, isPerm)

declareVariable(k, name, isPerm) ==
    IF Cur(k).scopeDepth = 0 THEN k
    ELSE addLocal(declareScan(k, Cur(k).localCount - 1, name), name, isPerm)

\* parseVariable after declareVariable.
variableConstant(k, name) ==
    IF Cur(k).scopeDepth > 0 THEN [k |-> k, ret |-> 0]
    ELSE identifierConstant(k, name)

parseVariable(k, name, isPerm) ==
    variableConstant(declareVariable(k, name, isPerm), name)

markInitialized(k) ==
    IF Cur(k).scopeDepth = 0 THEN k
    ELSE [k EXCEPT !.compilers[Top(k)].locals[Cur(k).localCount - 1].depth =
                      Cur(k).scopeDepth]

defineVariable(k, global, isPerm) ==
    IF Cur(k).scopeDepth > 0 THEN markInitialized(k)
    ELSE IF isPerm THEN emitBytes(k, OP_DEFINE_GLOBAL_PERM, global)
    ELSE emitBytes(k, OP_DEFINE_GLOBAL, global)

\* Whether upvalue idx of the compiler at ci stands for a local declared perm.
RECURSIVE upvalueIsPerm(_, _, _)
upvalueIsPerm(k, ci, idx) ==
    LET u == k.compilers[ci].upvalues[idx + 1] IN
    IF u.isLocal THEN k.compilers[ci - 1].locals[u.index].isPerm = "true"
    ELSE upvalueIsPerm(k, ci - 1, u.index)

\* namedVariable up to the choice of getOp and setOp: the variable is a
\* local, else an upvalue, else a global.
globalVariable(global) == [k |-> global.k, arg |-> global.ret, kind |-> "global"]

upvalueOrGlobal(upvalue, name) ==
    IF upvalue.ret # 0 - 1
    THEN [k |-> upvalue.k, arg |-> upvalue.ret, kind |-> "upvalue"]
    ELSE globalVariable(identifierConstant(upvalue.k, name))

localOrOther(local, name) ==
    IF local.ret # 0 - 1
    THEN [k |-> local.k, arg |-> local.ret, kind |-> "local"]
    ELSE upvalueOrGlobal(resolveUpvalue(local.k, Top(local.k), name), name)

getOp(kind) ==
    IF kind = "local" THEN OP_GET_LOCAL
    ELSE IF kind = "upvalue" THEN OP_GET_UPVALUE ELSE OP_GET_GLOBAL

setOp(kind) ==
    IF kind = "local" THEN OP_SET_LOCAL
    ELSE IF kind = "upvalue" THEN OP_SET_UPVALUE ELSE OP_SET_GLOBAL

\* The test current->locals[arg].isPerm.  garbage is what the read yields
\* when no code has written the cell.
localIsPerm(k, arg, garbage) ==
    IF arg < LocalCells /\ Cur(k).locals[arg].isPerm # "indeterminate"
    THEN Cur(k).locals[arg].isPerm = "true"
    ELSE garbage

\* A namedVariable without the test.
permCheckNone(k, arg, garbage) == k

permCheck(k, arg, garbage) ==
    IF arg # 0 - 1 /\ localIsPerm(k, arg, garbage)
    THEN error(k, "Can't reassign to permanent variable")
    ELSE k

\* The history of stores: the instruction, and whether the variable it
\* writes was declared perm.
recordStore(k, v) ==
    IF v.kind = "global" THEN k
    ELSE [k EXCEPT !.stores = Append(@,
             [op |-> setOp(v.kind),
              perm |-> IF v.kind = "local"
                       THEN Cur(v.k).locals[v.arg].isPerm = "true"
                       ELSE upvalueIsPerm(v.k, Top(v.k), v.arg)])]

RECURSIVE expression(_, _, _)

\* The branch of namedVariable taken when canAssign holds and '=' follows;
\* value is the expression assigned.
assignVariable(v, value, garbage) ==
    recordStore(emitBytes(expression(permCheck(v.k, v.arg, garbage), value, garbage),
                          setOp(v.kind), v.arg),
                v)

variableCode(v, assign, value, garbage) ==
    IF assign THEN assignVariable(v, value, garbage)
    ELSE emitBytes(v.k, getOp(v.kind), v.arg)

namedVariable(k, name, assign, value, garbage) ==
    variableCode(localOrOther(resolveLocal(k, Top(k), name), name), assign, value,
                 garbage)

\* binary() once both operands are compiled.
binary(k, operatorType) ==
    IF operatorType = "==" THEN emitByte(k, OP_EQUAL)
    ELSE IF operatorType = "<" THEN emitByte(k, OP_LESS)
    ELSE IF operatorType = "<=" THEN emitBytes(k, OP_GREATER, OP_NOT)
    ELSE emitByte(k, OP_ADD)

\* expression() on the expression e:
\*   <<"num">>  0        <<"lit", n>>  n          <<"true">>  true
\*   <<"get", n>>  n     <<"set", n>>  n = 0      <<"assign", n, v>>  n = v
\*   <<"binary", op, l, r>>  l op r      <<"getset", r, t>>  r + (t = 0)
expression(k, e, garbage) ==
    IF e[1] = "num" THEN emitConstant(k, <<"number", 0>>)
    ELSE IF e[1] = "lit" THEN emitConstant(k, <<"number", e[2]>>)
    ELSE IF e[1] = "true" THEN emitByte(k, OP_TRUE)
    ELSE IF e[1] = "get" THEN namedVariable(k, e[2], FALSE, << >>, garbage)
    ELSE IF e[1] = "set" THEN namedVariable(k, e[2], TRUE, <<"num">>, garbage)
    ELSE IF e[1] = "assign" THEN namedVariable(k, e[2], TRUE, e[3], garbage)
    ELSE IF e[1] = "binary"
    THEN binary(expression(expression(k, e[3], garbage), e[4], garbage), e[2])
    ELSE emitByte(namedVariable(namedVariable(k, e[2], FALSE, << >>, garbage),
                                e[3], TRUE, <<"num">>, garbage),
                  OP_ADD)

(***************************************************************************)
(* Statements.  loopLog keeps, for the properties, where each loop, break  *)
(* and continue was compiled: kind, the offset at (of the JUMP of a break, *)
(* the LOOP of a continue, the exit of a loop), the loop statement stmt it *)
(* belongs to, the compiler fn, and for a loop the offsets of its          *)
(* condition and increment (-1: none) and the locals declared before it.   *)
(***************************************************************************)
LogEntry(kind, at, stmt, fn, cond, incr, locals) ==
    [kind |-> kind, at |-> at, stmt |-> stmt, fn |-> fn, cond |-> cond,
     incr |-> incr, locals |-> locals]

\* The loop statement around the parser within the current function, from
\* the calls in progress (0: none).
RECURSIVE LoopAround(_, _)
LoopAround(nest, i) ==
    IF i = 0 THEN 0
    ELSE IF nest[i].kind = "function" THEN 0
    ELSE IF nest[i].kind \in {"while", "for"} THEN nest[i].stmt
    ELSE LoopAround(nest, i - 1)

\* "Loop loop; ...; current->loop = &loop".
pushLoop(k, loopStart) ==
    [k EXCEPT !.compilers[Top(k)].loops =
                 Append(@, [start |-> loopStart, scopeDepth |-> Cur(k).scopeDepth,
                            breakJumps |-> << >>])]

\* breakStatement after discardLocals.
breakJump(j, stmt) ==
    [j.k EXCEPT !.compilers[Top(j.k)].loops[Len(Cur(j.k).loops)].breakJumps =
                   Append(@, j.ret),
                !.loopLog = Append(@, LogEntry("break", j.ret - 1, stmt, Top(j.k),
                                               0, 0, 0))]

\* A breakStatement that leaves the locals of the loop body on the stack.
breakCodeNoDiscard(k, stmt) == breakJump(emitJump(k, OP_JUMP), stmt)

\* breakStatement with current->loop set.
breakCode(k, stmt) == breakJump(emitJump(discardLocals(k), OP_JUMP), stmt)

\* continueStatement after discardLocals.
continueLoop(k, stmt) ==
    [emitLoop(k, Cur(k).loops[Len(Cur(k).loops)].start) EXCEPT
        !.loopLog = Append(@, LogEntry("continue", Len(Cur(k).code), stmt, Top(k),
                                       0, 0, 0))]

\* A continueStatement that leaves the locals of the loop body on the stack.
continueCodeNoDiscard(k, stmt) == continueLoop(k, stmt)

\* continueStatement with current->loop set.
continueCode(k, stmt) == continueLoop(discardLocals(k), stmt)

printCode(k, e, garbage) == emitByte(expression(k, e, garbage), OP_PRINT)

expressionCode(k, e, garbage) == emitByte(expression(k, e, garbage), OP_POP)

\* statement() on a print, break, continue or expression statement.
statement(k, s, stmt, garbage) ==
    IF s[1] = "print" THEN printCode(k, s[2], garbage)
    ELSE IF s[1] = "break" THEN breakCode(k, stmt)
    ELSE IF s[1] = "continue" THEN continueCode(k, stmt)
    ELSE expressionCode(k, s[2], garbage)

\* ifStatement (without else) from the end of the then branch on.
ifElse(elseJump, thenJump) ==
    patchJump(emitByte(patchJump(elseJump.k, thenJump), OP_POP), elseJump.ret)

\* ifStatement from the jump over the then branch on.
ifThen(thenJump, s, stmt, garbage) ==
    ifElse(emitJump(statement(emitByte(thenJump.k, OP_POP), s, stmt, garbage), OP_JUMP),
           thenJump.ret)

ifCode(k, e, s, stmt, garbage) ==
    ifThen(emitJump(expression(k, e, garbage), OP_JUMP_IF_FALSE), s, stmt, garbage)

\* varDeclaration after parseVariable.
varDefine(v, e, garbage) == defineVariable(expression(v.k, e, garbage), v.ret, FALSE)

\* The initializer clause of forStatement.
forInit(k, init, garbage) ==
    IF init[1] = "none" THEN k
    ELSE IF init[1] = "var"
    THEN varDefine(parseVariable(k, init[2], FALSE), init[3], garbage)
    ELSE expressionCode(k, init[2], garbage)

forExit(j) == [k |-> emitByte(j.k, OP_POP), ret |-> j.ret]

\* The condition clause of forStatement: ret is exitJump.
forCondition(k, cond, garbage) ==
    IF cond[1] = "none" THEN [k |-> k, ret |-> 0 - 1]
    ELSE forExit(emitJump(expression(k, cond, garbage), OP_JUMP_IF_FALSE))

\* The increment clause after the jump over it: ret is the new loopStart.
forBody(bodyJump, loopStart, incr, garbage) ==
    [k |-> patchJump(emitLoop(expressionCode(bodyJump.k, incr, garbage), loopStart),
                     bodyJump.ret),
     ret |-> Len(Cur(bodyJump.k).code),
     incr |-> Len(Cur(bodyJump.k).code)]

\* An increment clause compiled in place, before the body.
forIncrementFirst(k, loopStart, incr, garbage) ==
    IF incr[1] = "none" THEN [k |-> k, ret |-> loopStart, incr |-> 0 - 1]
    ELSE [k |-> expressionCode(k, incr, garbage), ret |-> loopStart,
          incr |-> Len(Cur(k).code)]

\* The increment clause of forStatement.
forIncrement(k, loopStart, incr, garbage) ==
    IF incr[1] = "none" THEN [k |-> k, ret |-> loopStart, incr |-> 0 - 1]
    ELSE forBody(emitJump(k, OP_JUMP), loopStart, incr, garbage)

RECURSIVE patchBreaks(_, _, _)
patchBreaks(k, breakJumps, i) ==
    IF i > Len(breakJumps) THEN k
    ELSE patchBreaks(patchJump(k, breakJumps[i]), breakJumps, i + 1)

\* emitLoop(loopStart) after the body of a loop.
loopBack(k) == emitLoop(k, Cur(k).loops[Len(Cur(k).loops)].start)

\* "current->loop = loop.enclosing".
closeLoop(k, entry) ==
    [k EXCEPT !.compilers[Top(k)].loops = SubSeq(@, 1, Len(@) - 1),
              !.loopLog = Append(@, LogEntry("loop", Len(Cur(k).code), entry.stmt,
                                             Top(k), entry.cond, entry.incr,
                                             entry.locals))]

\* The end of whileStatement and of forStatement after emitLoop: the exit
\* jump is patched and the condition popped, the breaks are patched.
loopEnd(k, entry) ==
    closeLoop(patchBreaks(IF entry.saved # 0 - 1
                          THEN emitByte(patchJump(k, entry.saved), OP_POP)
                          ELSE k,
                          Cur(k).loops[Len(Cur(k).loops)].breakJumps, 1),
              entry)

(***************************************************************************)
(* compile(): one action per statement handler.                            *)
(***************************************************************************)
Commit(k) ==
    /\ compilers' = k.compilers
    /\ diagnostics' = k.diagnostics
    /\ stores' = k.stores
    /\ loopLog' = k.loopLog

\* The end of declaration(): in panic mode synchronize() clears the flag; it
\* returns at once when the statement ended with ';' and skips tokens
\* otherwise.
DeclarationEnd(k, semicolon) ==
    /\ parser' = [hadError |-> k.hadError, panicMode |-> FALSE]
    /\ syncing' = (k.panicMode /\ ~semicolon)

\* The handler returns into an enclosing handler, not into declaration().
NoDeclarationEnd(k) ==
    /\ parser' = [hadError |-> k.hadError, panicMode |-> k.panicMode]
    /\ syncing' = FALSE

At(kind) ==
    /\ cpc = "compiling"
    /\ ~syncing
    /\ pos <= Len(source)
    /\ source[pos][1] = kind

\* locals[] has room for n more locals within the cells the model follows.
Room(n) == compilers[Len(compilers)].localCount + n <= LocalCells

(***************************************************************************)
(* The sources compile() is run on: brace-balanced programs over the       *)
(* variables a and x, the function f and its parameter p.                  *)
(***************************************************************************)
Names == {"a", "x"}

Exprs ==
    {<<"num">>} \cup {<<"get", n>> : n \in Names} \cup {<<"set", n>> : n \in Names}
    \cup {<<"getset", r, t>> : r \in Names, t \in Names}

Decls == {<<d, n, e>> : d \in {"var", "perm"}, n \in Names, e \in {<<"num">>}}

Simple ==
    {<<"expr", e>> : e \in Exprs}
    \cup Decls
    \cup {<<d, n, <<"getset", n, "x">>>> : d \in {"var", "perm"}, n \in Names}
    \cup {<<"break">>, <<"continue">>}

\* d s        and        { d s }
FlatSources ==
    {<<d, s>> : d \in Decls, s \in Simple}
    \cup {<<<<"{">>, d, s, <<"}">>>> : d \in Decls, s \in Simple}

\* { var a = 0; d fun f(ps) { s } }
FunSources ==
    {<<<<"{">>, <<"var", "a", <<"num">>>>, d, <<"fun", "f", ps>>, s, <<"}">>, <<"}">>>> :
        d \in {<<"var", "x", <<"num">>>>, <<"perm", "x", <<"num">>>>},
        ps \in {<< >>, <<"p">>}, s \in Simple}

\* while (true) { d s }        and        while (true) { fun f() { s } }
LoopSources ==
    {<<<<"while">>, d, s, <<"}">>>> : d \in Decls, s \in Simple}
    \cup {<<<<"while">>, <<"fun", "f", << >>>>, s, <<"}">>, <<"}">>>> : s \in Simple}

\* { var f = 0; fun f() { } s }: the function's name is taken, its body empty.
SyncSources ==
    {<<<<"{">>, <<"var", "f", <<"num">>>>, <<"fun", "f", << >>>>, <<"}">>, s, <<"}">>>> :
        s \in Simple}

\* { perm x = 0; s1 s2 }: two statements that can each be in error.
ErrorSources ==
    {<<<<"{">>, <<"perm", "x", <<"num">>>>, s1, s2, <<"}">>>> :
        s1 \in {<<"expr", <<"set", "x">>>>, <<"var", "a", <<"getset", "a", "x">>>>},
        s2 \in {<<"expr", <<"set", "x">>>>, <<"expr", <<"get", "a">>>>}}

\* { d fun f(p) { var p = 0; } }: the body declares the parameter's name again,
\* after a function name that is taken (d declares f) or free (d declares a).
RedeclareSources ==
    {<<<<"{">>, <<"var", n, <<"num">>>>, <<"fun", "f", <<"p">>>>,
       <<"var", "p", <<"num">>>>, <<"}">>, <<"}">>>> : n \in {"a", "f"}}

\* { var a = 0; { var n = 0; } }: the inner block declares the name of the
\* local of the block around it (n = a) or another one (n = b).
ShadowSources ==
    {<<<<"{">>, <<"var", "a", <<"num">>>>, <<"{">>, <<"var", n, <<"num">>>>,
       <<"}">>, <<"}">>>> : n \in {"a", "b"}}

Sources ==
    FlatSources \cup FunSources \cup LoopSources \cup SyncSources \cup ErrorSources
    \cup RedeclareSources \cup ShadowSources

\* A compile without lines 1324-1325: the flags of the last call stay.
parserFlagsKept(p) == p

\* compile(): parser.hadError = false; parser.panicMode = false.
parserFlags(p) == [hadError |-> FALSE, panicMode |-> FALSE]

\* compile() up to the first declaration; the REPL calls it once per line.
compileBegin(sources) ==
    /\ cpc \in {"idle", "done"}
    /\ Len(earlier) + (IF cpc = "done" THEN 1 ELSE 0) < MaxCompiles
    /\ \E src \in sources : source' = src
    /\ pos' = 1
    /\ cpc' = "compiling"
    /\ cresult' = "none"
    /\ earlier' = IF cpc = "done" THEN Append(earlier, cresult) ELSE earlier
    /\ compilers' = initCompiler(K, TYPE_SCRIPT, "").compilers
    /\ parser' = parserFlags(parser)
    /\ diagnostics' = << >>
    /\ stores' = << >>
    /\ loopLog' = << >>
    /\ UNCHANGED <<nesting, syncing>>
    /\ UNCHANGED <<vmVars, debugVars>>

CompileBegin == compileBegin(Sources)

varDeclaration ==
    /\ At("var")
    /\ Room(1)
    /\ \E garbage \in BOOLEAN :
          LET v == parseVariable(K, source[pos][2], FALSE)
              k == defineVariable(expression(v.k, source[pos][3], garbage), v.ret, FALSE)
          IN Commit(k) /\ DeclarationEnd(k, TRUE)
    /\ pos' = pos + 1
    /\ UNCHANGED <<source, cpc, cresult, earlier, nesting>>
    /\ UNCHANGED <<vmVars, debugVars>>

permDeclaration ==
    /\ At("perm")
    /\ Room(1)
    /\ \E garbage \in BOOLEAN :
          LET v == parseVariable(K, source[pos][2], TRUE)
              k == defineVariable(expression(v.k, source[pos][3], garbage), v.ret, TRUE)
          IN Commit(k) /\ DeclarationEnd(k, TRUE)
    /\ pos' = pos + 1
    /\ UNCHANGED <<source, cpc, cresult, earlier, nesting>>
    /\ UNCHANGED <<vmVars, debugVars>>

expressionStatement ==
    /\ At("expr")
    /\ \E garbage \in BOOLEAN :
          LET k == emitByte(expression(K, source[pos][2], garbage), OP_POP)
          IN Commit(k) /\ DeclarationEnd(k, TRUE)
    /\ pos' = pos + 1
    /\ UNCHANGED <<source, cpc, cresult, earlier, nesting>>
    /\ UNCHANGED <<vmVars, debugVars>>

\* statement() at '{': beginScope, then block() takes the declarations.
BlockBegin ==
    /\ At("{")
    /\ LET k == beginScope(K) IN Commit(k) /\ NoDeclarationEnd(k)
    /\ nesting' = Append(nesting, [kind |-> "block", saved |-> 0])
    /\ pos' = pos + 1
    /\ UNCHANGED <<source, cpc, cresult, earlier>>
    /\ UNCHANGED <<vmVars, debugVars>>

\* block() meets '}': endScope, and the block statement is over.
BlockEnd ==
    /\ At("}")
    /\ nesting # << >>
    /\ nesting[Len(nesting)].kind = "block"
    /\ LET k == endScope(K) IN Commit(k) /\ DeclarationEnd(k, FALSE)
    /\ nesting' = SubSeq(nesting, 1, Len(nesting) - 1)
    /\ pos' = pos + 1
    /\ UNCHANGED <<source, cpc, cresult, earlier>>
    /\ UNCHANGED <<vmVars, debugVars>>

\* The parameter loop of function(), from parameter i on.
defineParameter(v) == defineVariable(v.k, v.ret, FALSE)

RECURSIVE parameters(_, _, _)
parameters(k, params, i) ==
    IF i > Len(params) THEN k
    ELSE parameters(defineParameter(parseVariable(
                        [k EXCEPT !.compilers[Top(k)].arity = @ + 1],
                        params[i], FALSE)),
                    params, i + 1)

\* funDeclaration and function() up to the body: block() takes it from here.
funDeclaration ==
    /\ At("fun")
    /\ Room(1)
    /\ 1 + Len(source[pos][3]) <= LocalCells
    /\ LET v == parseVariable(K, source[pos][2], FALSE)
           k1 == beginScope(initCompiler(markInitialized(v.k), TYPE_FUNCTION,
                                         source[pos][2]))
           k == parameters(k1, source[pos][3], 1)
       IN /\ Commit(k)
          /\ NoDeclarationEnd(k)
          /\ nesting' = Append(nesting, [kind |-> "function", saved |-> v.ret])
    /\ pos' = pos + 1
    /\ UNCHANGED <<source, cpc, cresult, earlier>>
    /\ UNCHANGED <<vmVars, debugVars>>

\* The operand pairs OP_CLOSURE is followed by, from upvalue i on.
RECURSIVE emitUpvalues(_, _, _)
emitUpvalues(k, upvalues, i) ==
    IF i > Len(upvalues) THEN k
    ELSE emitUpvalues(emitByte(emitByte(k, IF upvalues[i].isLocal THEN 1 ELSE 0),
                               upvalues[i].index),
                      upvalues, i + 1)

\* The body's '}': the rest of function() and of funDeclaration.
FunctionEnd ==
    /\ At("}")
    /\ nesting # << >>
    /\ nesting[Len(nesting)].kind = "function"
    /\ LET e == endCompiler(K)
           c == makeConstant(e.k, <<"function", e.ret>>)
           k1 == emitUpvalues(emitBytes(c.k, OP_CLOSURE, c.ret), e.ret.upvalues, 1)
           k == defineVariable(k1, nesting[Len(nesting)].saved, FALSE)
       IN Commit(k) /\ DeclarationEnd(k, FALSE)
    /\ nesting' = SubSeq(nesting, 1, Len(nesting) - 1)
    /\ pos' = pos + 1
    /\ UNCHANGED <<source, cpc, cresult, earlier>>
    /\ UNCHANGED <<vmVars, debugVars>>

\* whileStatement up to the body, for the source "while (c) {"; the
\* statement <<"while">> has the condition true.
whileStatement ==
    /\ At("while")
    /\ \E garbage \in BOOLEAN :
          LET loopStart == Len(Cur(K).code)
              k1 == pushLoop(K, loopStart)
              exitJump == emitJump(IF Len(source[pos]) = 1 THEN emitByte(k1, OP_TRUE)
                                   ELSE expression(k1, source[pos][2], garbage),
                                   OP_JUMP_IF_FALSE)
              k == beginScope(emitByte(exitJump.k, OP_POP))
          IN /\ Commit(k)
             /\ NoDeclarationEnd(k)
             /\ nesting' = Append(nesting,
                    [kind |-> "while", saved |-> exitJump.ret, stmt |-> pos,
                     cond |-> loopStart, incr |-> 0 - 1,
                     locals |-> Cur(K).localCount])
    /\ pos' = pos + 1
    /\ UNCHANGED <<source, cpc, cresult, earlier>>
    /\ UNCHANGED <<vmVars, debugVars>>

\* The body's '}': endScope, then the rest of whileStatement.
WhileEnd ==
    /\ At("}")
    /\ nesting # << >>
    /\ nesting[Len(nesting)].kind = "while"
    /\ LET k == loopEnd(loopBack(endScope(K)), nesting[Len(nesting)])
       IN Commit(k) /\ DeclarationEnd(k, FALSE)
    /\ nesting' = SubSeq(nesting, 1, Len(nesting) - 1)
    /\ pos' = pos + 1
    /\ UNCHANGED <<source, cpc, cresult, earlier>>
    /\ UNCHANGED <<vmVars, debugVars>>

\* forStatement up to the body, for the source "for (init; cond; incr) {".
forStatement ==
    /\ At("for")
    /\ Room(1)
    /\ \E garbage \in BOOLEAN :
          LET k1 == forInit(beginScope(K), source[pos][2], garbage)
              c == forCondition(k1, source[pos][3], garbage)
              i == forIncrement(c.k, Len(Cur(k1).code), source[pos][4], garbage)
              k == beginScope(pushLoop(i.k, i.ret))
          IN /\ Commit(k)
             /\ NoDeclarationEnd(k)
             /\ nesting' = Append(nesting,
                    [kind |-> "for", saved |-> c.ret, stmt |-> pos,
                     cond |-> Len(Cur(k1).code), incr |-> i.incr,
                     locals |-> Cur(k1).localCount])
    /\ pos' = pos + 1
    /\ UNCHANGED <<source, cpc, cresult, earlier>>
    /\ UNCHANGED <<vmVars, debugVars>>

\* The body's '}': endScope, then the rest of forStatement.
ForEnd ==
    /\ At("}")
    /\ nesting # << >>
    /\ nesting[Len(nesting)].kind = "for"
    /\ LET k == endScope(loopEnd(loopBack(endScope(K)), nesting[Len(nesting)]))
       IN Commit(k) /\ DeclarationEnd(k, FALSE)
    /\ nesting' = SubSeq(nesting, 1, Len(nesting) - 1)
    /\ pos' = pos + 1
    /\ UNCHANGED <<source, cpc, cresult, earlier>>
    /\ UNCHANGED <<vmVars, debugVars>>

\* breakStatement.  With current->loop NULL the error is reported and then
\* discardLocals reads current->loop->scopeDepth through the null pointer:
\* the process is killed, or goes on in a state this model does not follow.
breakStatement ==
    /\ At("break")
    /\ pos' = pos + 1
    /\ IF Cur(K).loops = << >>
       THEN LET k == error(K, "Can't use 'break' outside of a loop.") IN
            /\ Commit(k)
            /\ NoDeclarationEnd(k)
            /\ cpc' \in {"crashed", "undefined"}
       ELSE LET k == breakCode(K, LoopAround(nesting, Len(nesting)))
            IN /\ Commit(k)
               /\ DeclarationEnd(k, TRUE)
               /\ UNCHANGED cpc
    /\ UNCHANGED <<source, cresult, earlier, nesting>>
    /\ UNCHANGED <<vmVars, debugVars>>

\* continueStatement, with the same read through current->loop.
continueStatement ==
    /\ At("continue")
    /\ pos' = pos + 1
    /\ IF Cur(K).loops = << >>
       THEN LET k == error(K, "Can't use 'continue' outside of a loop.") IN
            /\ Commit(k)
            /\ NoDeclarationEnd(k)
            /\ cpc' \in {"crashed", "undefined"}
       ELSE LET k == continueCode(K, LoopAround(nesting, Len(nesting)))
            IN /\ Commit(k)
               /\ DeclarationEnd(k, TRUE)
               /\ UNCHANGED cpc
    /\ UNCHANGED <<source, cresult, earlier, nesting>>
    /\ UNCHANGED <<vmVars, debugVars>>

printStatement ==
    /\ At("print")
    /\ \E garbage \in BOOLEAN :
          LET k == printCode(K, source[pos][2], garbage)
          IN Commit(k) /\ DeclarationEnd(k, TRUE)
    /\ pos' = pos + 1
    /\ UNCHANGED <<source, cpc, cresult, earlier, nesting>>
    /\ UNCHANGED <<vmVars, debugVars>>

\* ifStatement for the source "if (e) s" with s a print, break, continue or
\* expression statement.  A break or continue with current->loop NULL ends
\* as in breakStatement.
ifStatement ==
    /\ At("if")
    /\ pos' = pos + 1
    /\ \E garbage \in BOOLEAN :
          IF source[pos][3][1] \in {"break", "continue"} /\ Cur(K).loops = << >>
          THEN LET k == error(emitByte(emitJump(expression(K, source[pos][2], garbage),
                                                OP_JUMP_IF_FALSE).k, OP_POP),
                              IF source[pos][3][1] = "break"
                              THEN "Can't use 'break' outside of a loop."
                              ELSE "Can't use 'continue' outside of a loop.")
               IN /\ Commit(k)
                  /\ NoDeclarationEnd(k)
                  /\ cpc' \in {"crashed", "undefined"}
          ELSE LET k == ifCode(K, source[pos][2], source[pos][3],
                               LoopAround(nesting, Len(nesting)), garbage)
               IN /\ Commit(k)
                  /\ DeclarationEnd(k, TRUE)
                  /\ UNCHANGED cpc
    /\ UNCHANGED <<source, cresult, earlier, nesting>>
    /\ UNCHANGED <<vmVars, debugVars>>

\* synchronize() after a statement that did not end with ';': it stops
\* before class, fun, var, for, if, while, print and return, and otherwise
\* skips tokens until one of those, a ';' or the end of the source.
StopKinds == {"class", "fun", "var", "for", "if", "while", "print", "return"}

synchronize ==
    /\ cpc = "compiling"
    /\ syncing
    /\ IF pos > Len(source) \/ source[pos][1] \in StopKinds
       THEN syncing' = FALSE /\ UNCHANGED pos
       ELSE /\ pos' = pos + 1
            /\ syncing' = (source[pos][1] \in {"{", "}"})
    /\ UNCHANGED <<source, cpc, cresult, earlier, compilers, parser, diagnostics, nesting,
                   stores, loopLog>>
    /\ UNCHANGED <<vmVars, debugVars>>

\* compile() at TOKEN_EOF: endCompiler, and NULL if there was an error.
CompileEnd ==
    /\ cpc = "compiling"
    /\ ~syncing
    /\ pos > Len(source)
    /\ nesting = << >>
    /\ compilers' = endCompiler(K).k.compilers
    /\ cresult' = IF parser.hadError THEN "null" ELSE "function"
    /\ cpc' = "done"
    /\ UNCHANGED <<source, pos, parser, diagnostics, nesting, syncing, stores, earlier,
                   loopLog>>
    /\ UNCHANGED <<vmVars, debugVars>>

NextCompile ==
    \/ CompileBegin
    \/ varDeclaration \/ permDeclaration \/ expressionStatement
    \/ BlockBegin \/ BlockEnd
    \/ funDeclaration \/ FunctionEnd
    \/ whileStatement \/ WhileEnd
    \/ breakStatement \/ continueStatement
    \/ synchronize
    \/ CompileEnd

SpecCompile == Init /\ [][NextCompile]_vars

(***************************************************************************)
(* A collection while compile() is in progress.  current is the innermost  *)
(* Compiler; the enclosing pointer of the i-th compiler of the chain leads *)
(* to the one before it and that of the first is NULL.  The function of    *)
(* the i-th compiler is not on the model's heap: it is shown as -i.        *)
(***************************************************************************)
FunctionOf(compiler) == 0 - compiler

Enclosing(compiler) == compiler - 1

RECURSIVE markCompilerRoots(_)
\* A markCompilerRoots that marks the function of current alone.
markCompilerRootsCurrent(compiler) ==
    IF compiler = NULL THEN {} ELSE markObject(FunctionOf(compiler))

markCompilerRoots(compiler) ==
    IF compiler = NULL THEN {}
    ELSE markObject(FunctionOf(compiler)) \cup markCompilerRoots(Enclosing(compiler))

\* collectGarbage from an allocation the compiler makes (a function, a name,
\* a constant, the growth of a chunk) between two statements.
collectCompiling ==
    /\ cpc = "compiling"
    /\ marked' = marked \cup markRoots(stackTop) \cup markCompilerRoots(Len(compilers))
    /\ marked' # marked
    /\ UNCHANGED <<heap, strings, globals, stack, stackTop, frames, frameCount, frame,
                   openUpvalues, pc, result, errLog, out, runs, lastOp, permGlobals,
                   taken, calls, freed>>
    /\ UNCHANGED <<compVars, debugVars>>

NextCompileGC == NextCompile \/ collectCompiling

SpecCompileGC == Init /\ [][NextCompileGC]_vars

(***************************************************************************)
(* A source file compiled and run (runFile): compile() as above, then the  *)
(* rest of interpret() and run() on the function compile returned.         *)
(***************************************************************************)
NameBytes(name) ==
    IF name = "" THEN << >>
    ELSE IF name = "a" THEN <<97>>
    ELSE IF name = "b" THEN <<98>>
    ELSE IF name = "f" THEN <<102>>
    ELSE IF name = "i" THEN <<105>>
    ELSE IF name = "j" THEN <<106>>
    ELSE IF name = "p" THEN <<112>>
    ELSE <<120>>

\* The constant pool from constant j on; next is the place in the program
\* of the next function constant.
RECURSIVE linkConstants(_, _, _)
linkConstants(constants, j, next) ==
    IF j > Len(constants) THEN << >>
    ELSE IF constants[j][1] = "function"
    THEN <<Fun(next)>> \o linkConstants(constants, j + 1, next + 1)
    ELSE IF constants[j][1] = "number"
    THEN <<Num(constants[j][2])>> \o linkConstants(constants, j + 1, next)
    ELSE <<Str(NameBytes(constants[j][2]))>> \o linkConstants(constants, j + 1, next)

linkFunction(fn, next) ==
    FnDesc(NameBytes(fn.name), fn.arity, fn.upvalueCount, fn.code,
           linkConstants(fn.constants, 1, next))

\* The functions declared in the script, in the order of their constants.
RECURSIVE nestedFunctions(_, _)
nestedFunctions(constants, j) ==
    IF j > Len(constants) THEN << >>
    ELSE IF constants[j][1] = "function"
    THEN <<constants[j][2]>> \o nestedFunctions(constants, j + 1)
    ELSE nestedFunctions(constants, j + 1)

\* The function compile() returned, as the objects it stands for.
link(fn) ==
    <<linkFunction(fn, 2)>> \o
    [i \in 1..Len(nestedFunctions(fn.constants, 1)) |->
        linkFunction(nestedFunctions(fn.constants, 1)[i], 0)]

\* Functions are declared in the script only.
Linkable(fn) ==
    \A i \in 1..Len(nestedFunctions(fn.constants, 1)) :
        nestedFunctions(nestedFunctions(fn.constants, 1)[i].constants, 1) = << >>

Lit(n) == <<"lit", n>>
Get(n) == <<"get", n>>
Equals(n, v) == <<"binary", "==", Get(n), Lit(v)>>
Below(n, v) == <<"binary", "<", Get(n), Lit(v)>>
Increment(n) == <<"assign", n, <<"binary", "+", Get(n), Lit(1)>>>>

\* if (n == v) s, or nothing when v is -1.
Unless(n, v, s) == IF v = 0 - 1 THEN << >> ELSE <<<<"if", Equals(n, v), s>>>>

\* for (var i = a; i < b; i = i + 1) { if (i == c) continue;
\*                                      if (i == d) break; print i; }
ForSource(a, b, c, d) ==
    <<<<"for", <<"var", "i", Lit(a)>>, Below("i", b), Increment("i")>>>>
    \o Unless("i", c, <<"continue">>) \o Unless("i", d, <<"break">>)
    \o <<<<"print", Get("i")>>, <<"}">>>>

ForParams ==
    {<<a, b, c, d>> : a \in 0..1, b \in 0..LoopLimit, c \in {0 - 1, 1},
                      d \in {0 - 1, 4}}

\* { var i = 0; for (init; cond; incr) { var a = i; [i = i + 1;]
\*                                        if (a == 1) s; print a; } }
\* with the body counting when there is no increment clause.
ClauseSource(init, cond, incr, s) ==
    <<<<"{">>, <<"var", "i", Lit(0)>>, <<"for", init, cond, incr>>,
      <<"var", "a", Get("i")>>>>
    \o (IF incr[1] = "none" THEN <<<<"expr", Increment("i")>>>> ELSE << >>)
    \o <<<<"if", Equals("a", 1), s>>, <<"print", Get("a")>>, <<"}">>, <<"}">>>>

ClauseParams ==
    {<<init, cond, incr, s>> :
        init \in {<<"none">>, <<"expr", <<"assign", "i", Lit(0)>>>>,
                  <<"var", "j", Lit(0)>>},
        cond \in {<<"none">>, Below("i", 3)},
        incr \in {<<"none">>, Increment("i")},
        s \in {<<"break">>, <<"continue">>}}
    \ {q \in {<<"none">>, <<"expr", <<"assign", "i", Lit(0)>>>>, <<"var", "j", Lit(0)>>}
              \X {<<"none">>} \X {<<"none">>, Increment("i")} \X {<<"continue">>} : TRUE}

\* { var i = 0; while (i < b) { var a = i; i = i + 1; [fun f() { a; }]
\*                              if (a == 1) s; print a; } }
\* or the same without the outer braces, i being a global.
WhileSource(b, s, captured, block) ==
    (IF block THEN <<<<"{">>>> ELSE << >>)
    \o <<<<"var", "i", Lit(0)>>, <<"while", Below("i", b)>>,
         <<"var", "a", Get("i")>>, <<"expr", Increment("i")>>>>
    \o (IF captured
        THEN <<<<"fun", "f", << >>>>, <<"expr", Get("a")>>, <<"}">>>>
        ELSE << >>)
    \o <<<<"if", Equals("a", 1), s>>, <<"print", Get("a")>>, <<"}">>>>
    \o (IF block THEN <<<<"}">>>> ELSE << >>)

WhileParams ==
    {<<b, s, captured, block>> : b \in {0, 1, 3}, s \in {<<"break">>, <<"continue">>},
                                 captured \in BOOLEAN, block \in BOOLEAN}

\* for (var i = 0; i < 2; i = i + 1) { var j = 0;
\*     while (j < 3) { var b = j; j = j + 1; if (b == 1) s; print b; }
\*     print i; }
NestedSource(s) ==
    <<<<"for", <<"var", "i", Lit(0)>>, Below("i", 2), Increment("i")>>,
      <<"var", "j", Lit(0)>>, <<"while", Below("j", 3)>>,
      <<"var", "b", Get("j")>>, <<"expr", Increment("j")>>,
      <<"if", Equals("b", 1), s>>, <<"print", Get("b")>>, <<"}">>,
      <<"print", Get("i")>>, <<"}">>>>

\* while (true) { var a = 0; break; }
\* { var i = 0; while (i < 2) { var a = i; i = i + 1; continue; } }
PlainSources ==
    {<<<<"while">>, <<"var", "a", Lit(0)>>, <<"break">>, <<"}">>>>,
     <<<<"{">>, <<"var", "i", Lit(0)>>, <<"while", Below("i", 2)>>,
       <<"var", "a", Get("i")>>, <<"expr", Increment("i")>>, <<"continue">>,
       <<"}">>, <<"}">>>>}

RunSources ==
    {ForSource(q[1], q[2], q[3], q[4]) : q \in ForParams}
    \cup {ClauseSource(q[1], q[2], q[3], q[4]) : q \in ClauseParams}
    \cup {WhileSource(q[1], q[2], q[3], q[4]) : q \in WhileParams}
    \cup {NestedSource(s) : s \in {<<"break">>, <<"continue">>}}
    \cup PlainSources

\* runFile: one source per process.
RunBegin == cpc = "idle" /\ compileBegin(RunSources)

\* interpret() from the return of compile() to the entry into run().
InterpretSource ==
    /\ cpc = "compiling"
    /\ ~syncing
    /\ pos > Len(source)
    /\ nesting = << >>
    /\ pc = "idle"
    /\ compilers' = endCompiler(K).k.compilers
    /\ cpc' = "done"
    /\ IF parser.hadError
       THEN /\ cresult' = "null"
            /\ result' = INTERPRET_COMPILE_ERROR
            /\ pc' = "returned"
            /\ UNCHANGED <<heap, strings, stack, stackTop, frames, frameCount, frame,
                           runs, lastOp, calls>>
       ELSE /\ cresult' = "function"
            /\ Linkable(endCompiler(K).ret)
            /\ enterRun(link(endCompiler(K).ret))
            /\ UNCHANGED result
    /\ UNCHANGED <<globals, openUpvalues, errLog, out, permGlobals, taken, marked, freed>>
    /\ UNCHANGED <<source, pos, parser, diagnostics, nesting, syncing, stores, earlier,
                   loopLog>>
    /\ UNCHANGED debugVars

NextRun ==
    \/ RunBegin
    \/ varDeclaration \/ expressionStatement
    \/ BlockBegin \/ BlockEnd
    \/ funDeclaration \/ FunctionEnd
    \/ whileStatement \/ WhileEnd
    \/ forStatement \/ ForEnd
    \/ breakStatement \/ continueStatement
    \/ printStatement \/ ifStatement
    \/ InterpretSource
    \/ OpConstant \/ OpNil \/ OpTrue \/ OpPop
    \/ OpGetLocal \/ OpSetLocal
    \/ OpGetGlobal \/ OpDefineGlobal \/ OpSetGlobal
    \/ OpEqual \/ OpLess \/ OpAdd \/ OpPrint
    \/ OpJump \/ OpJumpIfFalse \/ OpLoop
    \/ OpClosure \/ OpCloseUpvalue \/ OpReturn

SpecRun == Init /\ [][NextRun]_vars

(***************************************************************************)
(* The expression parser (compiler.c) on the tokens of a print statement.  *)
(* A token is shown by its type; p is the parser over tokens: the compiler *)
(* state k and the index at of parser.current.                             *)
(***************************************************************************)
PREC_NONE == 0
PREC_ASSIGNMENT == 1
PREC_OR == 2
PREC_AND == 3
PREC_EQUALITY == 4
PREC_COMPARISON == 5
PREC_TERM == 6
PREC_FACTOR == 7
PREC_UNARY == 8
PREC_CALL == 9
PREC_PRIMARY == 10

TokenTypes ==
    {"-", "+", ";", "!", "=", "==", "number", "and", "false", "nil", "or", "true", "eof"}

ParseRule(prefix, infix, precedence) ==
    [prefix |-> prefix, infix |-> infix, precedence |-> precedence]

\* rules[], the rows of TokenTypes.
rules ==
    [type \in TokenTypes |->
        CASE type = "-" -> ParseRule("unary", "binary", PREC_TERM)
          [] type = "+" -> ParseRule("NULL", "binary", PREC_TERM)
          [] type = ";" -> ParseRule("NULL", "NULL", PREC_NONE)
          [] type = "!" -> ParseRule("unary", "NULL", PREC_NONE)
          [] type = "=" -> ParseRule("NULL", "NULL", PREC_NONE)
          [] type = "==" -> ParseRule("NULL", "binary", PREC_EQUALITY)
          [] type = "number" -> ParseRule("number", "NULL", PREC_NONE)
          [] type = "and" -> ParseRule("NULL", "and_", PREC_NONE)
          [] type = "false" -> ParseRule("literal", "NULL", PREC_NONE)
          [] type = "nil" -> ParseRule("literal", "NULL", PREC_NONE)
          [] type = "or" -> ParseRule("NULL", "or_", PREC_NONE)
          [] type = "true" -> ParseRule("literal", "NULL", PREC_NONE)
          [] type = "eof" -> ParseRule("NULL", "NULL", PREC_NONE)]

getRule(table, type) == table[type]

\* parser.current and parser.previous; the scanner gives TOKEN_EOF from the
\* end of the source on.
TokenAt(tokens, i) == IF i >= 1 /\ i <= Len(tokens) THEN tokens[i] ELSE "eof"

currentType(tokens, p) == TokenAt(tokens, p.at)

previousType(tokens, p) == TokenAt(tokens, p.at - 1)

advance(p) == [p EXCEPT !.at = @ + 1]

consume(tokens, p, type, message) ==
    IF currentType(tokens, p) = type THEN advance(p)
    ELSE [p EXCEPT !.k = error(p.k, message)]

\* The parser once byte is emitted.
emitted(p, byte) == [p EXCEPT !.k = emitByte(p.k, byte)]

\* The parser once the jump at offset is patched.
patched(p, offset) == [p EXCEPT !.k = patchJump(p.k, offset)]

literal(tokens, p) ==
    emitted(p, CASE previousType(tokens, p) = "false" -> OP_FALSE
                 [] previousType(tokens, p) = "nil" -> OP_NIL
                 [] OTHER -> OP_TRUE)

number(p) == [p EXCEPT !.k = emitConstant(p.k, <<"number", 0>>)]

RECURSIVE parsePrecedence(_, _, _, _)
RECURSIVE infixLoop(_, _, _, _)

unary(table, tokens, p) ==
    emitted(parsePrecedence(table, tokens, p, PREC_UNARY),
            IF previousType(tokens, p) = "!" THEN OP_NOT ELSE OP_NEGATE)

\* binary(): the right operand, then the operator's instruction.
binaryInfix(table, tokens, p) ==
    emitted(parsePrecedence(table, tokens, p,
                            getRule(table, previousType(tokens, p)).precedence + 1),
            CASE previousType(tokens, p) = "==" -> OP_EQUAL
              [] previousType(tokens, p) = "+" -> OP_ADD
              [] OTHER -> OP_SUBTRACT)

and_(table, tokens, p) ==
    LET endJump == emitJump(p.k, OP_JUMP_IF_FALSE)
    IN patched(parsePrecedence(table, tokens,
                               [p EXCEPT !.k = emitByte(endJump.k, OP_POP)], PREC_AND),
               endJump.ret)

or_(table, tokens, p) ==
    LET elseJump == emitJump(p.k, OP_JUMP_IF_FALSE)
        endJump == emitJump(elseJump.k, OP_JUMP)
    IN patched(parsePrecedence(table, tokens,
                               [p EXCEPT !.k = emitByte(patchJump(endJump.k, elseJump.ret),
                                                        OP_POP)],
                               PREC_OR),
               endJump.ret)

prefixRule(table, tokens, p) ==
    CASE getRule(table, previousType(tokens, p)).prefix = "unary" -> unary(table, tokens, p)
      [] getRule(table, previousType(tokens, p)).prefix = "number" -> number(p)
      [] OTHER -> literal(tokens, p)

infixRule(table, tokens, p) ==
    CASE getRule(table, previousType(tokens, p)).infix = "binary" ->
            binaryInfix(table, tokens, p)
      [] getRule(table, previousType(tokens, p)).infix = "and_" -> and_(table, tokens, p)
      [] OTHER -> or_(table, tokens, p)

\* The while loop of parsePrecedence.
infixLoop(table, tokens, p, precedence) ==
    IF precedence <= getRule(table, currentType(tokens, p)).precedence
    THEN infixLoop(table, tokens, infixRule(table, tokens, advance(p)), precedence)
    ELSE p

\* "if (canAssign && match(TOKEN_EQUAL))".
assignmentTarget(tokens, p, precedence) ==
    IF precedence <= PREC_ASSIGNMENT /\ currentType(tokens, p) = "="
    THEN [advance(p) EXCEPT !.k = error(p.k, "Invalid assignment target.")]
    ELSE p

\* parsePrecedence from the prefix rule on.
parseOperators(table, tokens, p, precedence) ==
    IF getRule(table, previousType(tokens, p)).prefix = "NULL"
    THEN [p EXCEPT !.k = error(p.k, "Expect expression.")]
    ELSE assignmentTarget(tokens,
                          infixLoop(table, tokens, prefixRule(table, tokens, p),
                                    precedence),
                          precedence)

parsePrecedence(table, tokens, p, precedence) ==
    parseOperators(table, tokens, advance(p), precedence)

\* printStatement after TOKEN_PRINT, tokens being the rest of the statement.
printTokensCode(table, tokens, k) ==
    emitted(consume(tokens,
                    parsePrecedence(table, tokens, [k |-> k, at |-> 1], PREC_ASSIGNMENT),
                    ";", "Expect ';' after value."),
            OP_PRINT)

\* The sources: print l op r;  and  print l op r op r;
Operands == {"true", "nil", "number"}

Operators == {"and", "or", "==", "+"}

TokenSources ==
    {<< <<"printTokens", <<l, o, r, ";">>>> >> :
        l \in Operands, o \in Operators, r \in Operands}
    \cup {<< <<"printTokens", <<l, o1, m, o2, r, ";">>>> >> :
            l \in Operands, o1 \in Operators, m \in {"number"}, o2 \in Operators,
            r \in Operands}
    \cup {<< <<"printTokens", <<"!", l, o, r, ";">>>> >> :
            l \in {"nil"}, o \in Operators \cup {"-"}, r \in Operands \cup {"="}}

ParseBegin == compileBegin(TokenSources)

\* statement() at TOKEN_PRINT.  After an error synchronize() skips the rest
\* of the statement, which ends with the ';' it stops behind.
printTokens ==
    /\ At("printTokens")
    /\ LET p == printTokensCode(rules, source[pos][2], K)
       IN Commit(p.k) /\ DeclarationEnd(p.k, TRUE)
    /\ pos' = pos + 1
    /\ UNCHANGED <<source, cpc, cresult, earlier, nesting>>
    /\ UNCHANGED <<vmVars, debugVars>>

NextParse == ParseBegin \/ printTokens \/ CompileEnd

SpecParse == Init /\ [][NextParse]_vars

(***************************************************************************)
(* The scanner (scanner.c).  Characters are their ASCII codes: 0 the       *)
(* terminating NUL, 9 tab, 10 newline, 13 return, 32 space, 33 !, 34 the   *)
(* double quote, 46 the dot, 47 the slash, 49 the digit 1, 61 =, 92 the    *)
(* backslash, 97 the letter a.  scanner.start and scanner.current are      *)
(* positions counted from 1 in the bytes of memory at the source pointer:  *)
(* the text, its terminating NUL, and then whatever bytes lie beyond the   *)
(* buffer, which the program never wrote.                                  *)
(***************************************************************************)
MaxSourceLen == 3

SourceChars == {10, 32, 34, 46, 47, 49, 61, 92, 97}

SourceTexts == UNION {[1..n -> SourceChars] : n \in 0..MaxSourceLen}

\* What a read beyond the terminating NUL can find in the next byte.
BeyondBytes == {<<0>>, <<34>>, <<97>>}

Memory(s) == s.text \o <<0>> \o s.beyond

\* The position of the terminating NUL of the source.
Terminator(s) == Len(s.text) + 1

CharAt(s, i) == IF i <= Len(Memory(s)) THEN Memory(s)[i] ELSE 0

isAlpha(c) == (c >= 97 /\ c <= 122) \/ (c >= 65 /\ c <= 90) \/ c = 95

isDigit(c) == c >= 48 /\ c <= 57

isAtEnd(s) == CharAt(s, s.current) = 0

scanAdvance(s) == [s EXCEPT !.current = @ + 1]

scanPeek(s) == CharAt(s, s.current)

peekNext(s) == IF isAtEnd(s) THEN 0 ELSE CharAt(s, s.current + 1)

\* match: the scanner after the call (its result is whether current moved).
match(s, expected) ==
    IF isAtEnd(s) THEN s
    ELSE IF scanPeek(s) # expected THEN s
    ELSE scanAdvance(s)

makeToken(s, type) ==
    [s EXCEPT !.token = [type |-> type, start |-> s.start,
                         length |-> s.current - s.start, line |-> s.line,
                         message |-> ""]]

errorToken(s, message) ==
    [s EXCEPT !.token = [type |-> "TOKEN_ERROR", start |-> 0, length |-> 0,
                         line |-> s.line, message |-> message]]

RECURSIVE skipComment(_)
skipComment(s) ==
    IF scanPeek(s) # 10 /\ ~isAtEnd(s) THEN skipComment(scanAdvance(s)) ELSE s

RECURSIVE skipWhitespace(_)
skipWhitespace(s) ==
    CASE scanPeek(s) \in {32, 13, 9} -> skipWhitespace(scanAdvance(s))
      [] scanPeek(s) = 10 -> skipWhitespace(scanAdvance([s EXCEPT !.line = @ + 1]))
      [] scanPeek(s) = 47 ->
            IF peekNext(s) = 47 THEN skipWhitespace(skipComment(s)) ELSE s
      [] OTHER -> s

Lexeme(s) == [i \in 1..(s.current - s.start) |-> CharAt(s, s.start + i - 1)]

checkKeyword(s, start, length, rest, type) ==
    IF s.current - s.start = start + length
       /\ SubSeq(Lexeme(s), start + 1, start + length) = rest
    THEN type
    ELSE "TOKEN_IDENTIFIER"

\* The switch on the first letter, for the one letter of SourceChars.
identifierType(s) ==
    IF CharAt(s, s.start) = 97
    THEN checkKeyword(s, 1, 2, <<110, 100>>, "TOKEN_AND")
    ELSE "TOKEN_IDENTIFIER"

RECURSIVE identifier(_)
identifier(s) ==
    IF isAlpha(scanPeek(s)) \/ isDigit(scanPeek(s))
    THEN identifier(scanAdvance(s))
    ELSE makeToken(s, identifierType(s))

RECURSIVE digits(_)
digits(s) == IF isDigit(scanPeek(s)) THEN digits(scanAdvance(s)) ELSE s

fraction(s) ==
    IF scanPeek(s) = 46 /\ isDigit(peekNext(s)) THEN digits(scanAdvance(s)) ELSE s

scanNumber(s) == makeToken(fraction(digits(s)), "TOKEN_NUMBER")

\* One turn of the loop of string(): the line count, the character after a
\* backslash, the character itself.
stringSkip(s) == scanAdvance(IF scanPeek(s) = 92 THEN scanAdvance(s) ELSE s)

stringChar(s) ==
    stringSkip(IF scanPeek(s) = 10 THEN [s EXCEPT !.line = @ + 1] ELSE s)

RECURSIVE string(_)
string(s) ==
    IF scanPeek(s) # 34 /\ ~isAtEnd(s) THEN string(stringChar(s))
    ELSE IF isAtEnd(s) THEN errorToken(s, "Unterminated string.")
    ELSE makeToken(scanAdvance(s), "TOKEN_STRING")

\* scanToken after c = advance().
scanChar(s, c) ==
    IF isAlpha(c) THEN identifier(s)
    ELSE IF isDigit(c) THEN scanNumber(s)
    ELSE CASE c = 40 -> makeToken(s, "TOKEN_LEFT_PAREN")
           [] c = 41 -> makeToken(s, "TOKEN_RIGHT_PAREN")
           [] c = 123 -> makeToken(s, "TOKEN_LEFT_BRACE")
           [] c = 125 -> makeToken(s, "TOKEN_RIGHT_BRACE")
           [] c = 59 -> makeToken(s, "TOKEN_SEMICOLON")
           [] c = 44 -> makeToken(s, "TOKEN_COMMA")
           [] c = 46 -> makeToken(s, "TOKEN_DOT")
           [] c = 45 -> makeToken(s, "TOKEN_MINUS")
           [] c = 43 -> makeToken(s, "TOKEN_PLUS")
           [] c = 47 -> makeToken(s, "TOKEN_SLASH")
           [] c = 42 -> makeToken(s, "TOKEN_STAR")
           [] c = 33 -> makeToken(match(s, 61),
                                  IF match(s, 61) # s THEN "TOKEN_BANG_EQUAL"
                                  ELSE "TOKEN_BANG")
           [] c = 61 -> makeToken(match(s, 61),
                                  IF match(s, 61) # s THEN "TOKEN_EQUAL_EQUAL"
                                  ELSE "TOKEN_EQUAL")
           [] c = 60 -> makeToken(match(s, 61),
                                  IF match(s, 61) # s THEN "TOKEN_LESS_EQUAL"
                                  ELSE "TOKEN_LESS")
           [] c = 62 -> makeToken(match(s, 61),
                                  IF match(s, 61) # s THEN "TOKEN_GREATER_EQUAL"
                                  ELSE "TOKEN_GREATER")
           [] c = 34 -> string(s)
           [] OTHER -> errorToken(s, "Unexpected character.")

startToken(s) == [s EXCEPT !.start = s.current]

scanFrom(s) ==
    IF isAtEnd(s) THEN makeToken(s, "TOKEN_EOF")
    ELSE scanChar(scanAdvance(s), scanPeek(s))

scanToken(s) == scanFrom(startToken(skipWhitespace(s)))

\* initScanner on a NUL-terminated source, for the one compile() the model
\* follows; the bytes beyond the source are whatever they are.
initScanner ==
    /\ scanner.current = NULL
    /\ \E text \in SourceTexts : \E beyond \in BeyondBytes :
          scanner' = [text |-> text, beyond |-> beyond, start |-> 1, current |-> 1,
                      line |-> 1, token |-> NoToken]
    /\ UNCHANGED <<chunk, pool, starts, atOffset, visited, dpc, lineVars, jumpRun, tokenRun>>
    /\ UNCHANGED <<vmVars, compVars>>

\* One call of scanToken by the compiler, which asks for no token after
\* TOKEN_EOF.
ScanNext ==
    /\ scanner.current # NULL
    /\ scanner.token.type # "TOKEN_EOF"
    /\ scanner' = scanToken(scanner)
    /\ UNCHANGED <<chunk, pool, starts, atOffset, visited, dpc, lineVars, jumpRun, tokenRun>>
    /\ UNCHANGED <<vmVars, compVars>>

NextScan == initScanner \/ ScanNext

SpecScan == Init /\ [][NextScan]_vars

\* C33: scanToken never moves scanner.current past the terminating NUL of
\* the source, and a string literal with no closing quote gives the error
\* token "Unterminated string.".
C33_CurrentWithinSource == scanner.current <= Terminator(scanner)

(***************************************************************************)
(* The loops of compile() over the tokens of a source (compiler.c).  A     *)
(* token is shown by its type.  tokenRun is the parser: the tokens, the    *)
(* index at of parser.current, the type of parser.previous, the two error  *)
(* flags, and the calls in progress as a stack of frames, the frame to     *)
(* execute next first.  A frame names a piece of a function of compiler.c  *)
(* and a step executes one frame.  For the loops it keeps the names of     *)
(* those that took a turn, the number of turns, and the names of those     *)
(* that took a turn which consumed no token and did not leave the loop.    *)
(* Code is not emitted here.                                               *)
(***************************************************************************)
MaxSuffix == 2

TokenKinds == {"identifier", "{", "}", "(", ")", ",", ";", "[", "]", "error"}

\* The rows of rules[] for TokenKinds and TOKEN_EOF.
tokenRule(type) ==
    CASE type = "(" -> ParseRule("grouping", "call", PREC_CALL)
      [] type = "[" -> ParseRule("list", "at_", PREC_CALL)
      [] type = "{" -> ParseRule("map", "NULL", PREC_NONE)
      [] type = "identifier" -> ParseRule("variable", "NULL", PREC_NONE)
      [] OTHER -> ParseRule("NULL", "NULL", PREC_NONE)

currentToken(q) == TokenAt(q.tokens, q.at)

\* error and errorAtCurrent: nothing is reported in panic mode.
errorAt(q) ==
    IF q.panicMode THEN q ELSE [q EXCEPT !.panicMode = TRUE, !.hadError = TRUE]

\* The loop of advance(): error tokens are reported and passed.
RECURSIVE skipErrors(_)
skipErrors(q) ==
    IF currentToken(q) = "error" THEN skipErrors(errorAt([q EXCEPT !.at = @ + 1]))
    ELSE q

\* advance(): from the end of the source on the scanner gives TOKEN_EOF
\* again and again.
advanceToken(q) ==
    skipErrors([q EXCEPT !.previous = currentToken(q),
                         !.at = IF @ <= Len(q.tokens) THEN @ + 1 ELSE @])

checkToken(q, type) == currentToken(q) = type

consumeToken(q, type) == IF checkToken(q, type) THEN advanceToken(q) ELSE errorAt(q)

\* A frame: what to execute, the loop or token type it is about, a number
\* (a precedence, or parser.current's index when a turn began), canAssign.
Frame(op, of, n, flag) == [op |-> op, of |-> of, n |-> n, flag |-> flag]

Do(op) == Frame(op, "", 0, FALSE)

Consume(type) == Frame("consume", type, 0, FALSE)

Expression == Frame("parsePrecedence", "", PREC_ASSIGNMENT, FALSE)

TurnOf(loop, q) == Frame("turn", loop, q.at, FALSE)

CommaOf(loop, q) == Frame("comma", loop, q.at, FALSE)

\* The first frame is done: next is executed, then the rest of the stack.
Then(q, next) == [q EXCEPT !.stack = next \o Tail(q.stack)]

\* A turn of loop that began at before is over and the loop is left (exits)
\* or goes round again.
turn(q, loop, before, exits) ==
    [q EXCEPT !.loops = @ \cup {loop},
              !.turns = IF q.at = before /\ ~exits THEN @ ELSE @ + 1,
              !.stuck = IF q.at = before /\ ~exits THEN @ \cup {loop} ELSE @]

\* The condition on which synchronize returns.
synchronizeStops(q) ==
    \/ checkToken(q, "eof")
    \/ q.previous = ";"
    \/ currentToken(q) \in StopKinds

\* The condition on which the while loop named is left.
whileExits(q, loop) ==
    CASE loop = "declarations" -> checkToken(q, "eof")
      [] loop \in {"block", "methods"} -> checkToken(q, "}") \/ checkToken(q, "eof")
      [] loop = "synchronize" -> synchronizeStops(q)
      [] OTHER -> FALSE

\* compile(): advance(), then the loop "while (!match(TOKEN_EOF))
\* declaration();".
compileLoop(q) ==
    IF checkToken(q, "eof") THEN Then(advanceToken(q), << >>)
    ELSE Then(q, <<Do("declaration"), TurnOf("declarations", q), Do("compile")>>)

\* statement(), for the statements that begin with a token of TokenKinds.
statement40(q) ==
    IF checkToken(q, "{")
    THEN Then(advanceToken(q), <<Do("block"), Consume("}"), Do("synchronize?")>>)
    ELSE Then(q, <<Expression, Consume(";"), Do("synchronize?")>>)

\* declaration() up to "if (parser.panicMode) synchronize();", for the
\* declarations that begin with class or fun and for statements.  No source
\* has a '<': a class has no superclass clause.
declaration40(q) ==
    CASE checkToken(q, "class") ->
            Then(consumeToken(consumeToken(advanceToken(q), "identifier"), "{"),
                 <<Do("methods"), Consume("}"), Do("synchronize?")>>)
      [] checkToken(q, "fun") ->
            Then(consumeToken(advanceToken(q), "identifier"),
                 <<Do("function"), Do("synchronize?")>>)
      [] OTHER -> statement40(q)

\* A synchronize whose loop does not call advance().
synchronizeStay(q) == q

\* "advance();" at the end of a turn of the loop of synchronize.
synchronizeTurn(q) == advanceToken(q)

\* The while loop of synchronize.
synchronizeLoop(q) ==
    IF synchronizeStops(q) THEN Then(q, << >>)
    ELSE Then(synchronizeTurn(q), <<TurnOf("synchronize", q), Do("synchronize")>>)

\* The while loop of block().
blockLoop(q) ==
    IF ~checkToken(q, "}") /\ ~checkToken(q, "eof")
    THEN Then(q, <<Do("declaration"), TurnOf("block", q), Do("block")>>)
    ELSE Then(q, << >>)

\* The while loop of classDeclaration over the methods.
methodLoop(q) ==
    IF ~checkToken(q, "}") /\ ~checkToken(q, "eof")
    THEN Then(consumeToken(q, "identifier"),
              <<Do("function"), TurnOf("methods", q), Do("methods")>>)
    ELSE Then(q, << >>)

\* function() after consume(TOKEN_LEFT_PAREN).
parameters40(q) ==
    Then(q, (IF checkToken(q, ")") THEN << >> ELSE <<Do("parameter")>>)
            \o <<Consume(")"), Consume("{"), Do("block"), Consume("}")>>)

\* A turn of the do loop of function(): a parameter, then
\* "while (match(TOKEN_COMMA))".
parameterNext(q, before) ==
    IF checkToken(q, ",")
    THEN Then(turn(advanceToken(q), "parameters", before, FALSE), <<Do("parameter")>>)
    ELSE Then(turn(q, "parameters", before, TRUE), << >>)

\* The frames of one turn of the do loop of argumentList, list or map.
ElementOf(loop) ==
    IF loop = "map" THEN <<Expression, Consume(":"), Expression>> ELSE <<Expression>>

\* "while (match(TOKEN_COMMA))" of argumentList, list and map.
commaNext(q, loop, before) ==
    IF checkToken(q, ",")
    THEN Then(turn(advanceToken(q), loop, before, FALSE),
              ElementOf(loop) \o <<CommaOf(loop, advanceToken(q))>>)
    ELSE Then(turn(q, loop, before, TRUE), << >>)

\* argumentList, list and map: the elements up to the closing token.
elements(q, loop, closing) ==
    (IF checkToken(q, closing) THEN << >>
     ELSE ElementOf(loop) \o <<CommaOf(loop, q)>>)
    \o <<Consume(closing)>>

\* "if (canAssign && match(TOKEN_EQUAL)) expression();" of namedVariable
\* and at_.
assigned(q, canAssign) ==
    IF canAssign /\ checkToken(q, "=") THEN Then(advanceToken(q), <<Expression>>)
    ELSE Then(q, << >>)

\* The prefix rule of parser.previous, then the rest of parsePrecedence.
prefixRule40(q, precedence) ==
    Then(q, (CASE tokenRule(q.previous).prefix = "grouping" -> <<Expression, Consume(")")>>
               [] tokenRule(q.previous).prefix = "list" -> elements(q, "list", "]")
               [] tokenRule(q.previous).prefix = "map" -> elements(q, "map", "}")
               [] OTHER -> <<Frame("assigned", "", 0, precedence <= PREC_ASSIGNMENT)>>)
            \o <<Frame("infix", "", precedence, FALSE),
                 Frame("target", "", precedence, FALSE)>>)

\* parsePrecedence after advance().
prefixed(q, precedence) ==
    IF tokenRule(q.previous).prefix = "NULL" THEN Then(errorAt(q), << >>)
    ELSE prefixRule40(q, precedence)

\* The infix rule of parser.previous: call or at_.
infixRule40(q, before, precedence) ==
    Then(q, (IF tokenRule(q.previous).infix = "call" THEN elements(q, "arguments", ")")
             ELSE <<Expression, Consume("]"),
                    Frame("assigned", "", 0, precedence <= PREC_ASSIGNMENT)>>)
            \o <<Frame("turn", "infix", before, FALSE),
                 Frame("infix", "", precedence, FALSE)>>)

\* The while loop of parsePrecedence.
infixLoop40(q, precedence) ==
    IF precedence <= tokenRule(currentToken(q)).precedence
    THEN infixRule40(advanceToken(q), q.at, precedence)
    ELSE Then(q, << >>)

invalidTarget(q, precedence) ==
    IF precedence <= PREC_ASSIGNMENT /\ checkToken(q, "=")
    THEN Then(errorAt(advanceToken(q)), << >>)
    ELSE Then(q, << >>)

\* The parser once frame f, the first of its stack, is executed.
execute(q, f) ==
    CASE f.op = "compile" -> compileLoop(q)
      [] f.op = "declaration" -> declaration40(q)
      [] f.op = "synchronize?" ->
            IF q.panicMode
            THEN Then([q EXCEPT !.panicMode = FALSE], <<Do("synchronize")>>)
            ELSE Then(q, << >>)
      [] f.op = "synchronize" -> synchronizeLoop(q)
      [] f.op = "block" -> blockLoop(q)
      [] f.op = "methods" -> methodLoop(q)
      [] f.op = "function" -> parameters40(consumeToken(q, "("))
      [] f.op = "parameter" -> parameterNext(consumeToken(q, "identifier"), q.at)
      [] f.op = "comma" -> commaNext(q, f.of, f.n)
      [] f.op = "consume" -> Then(consumeToken(q, f.of), << >>)
      [] f.op = "turn" -> Then(turn(q, f.of, f.n, whileExits(q, f.of)), << >>)
      [] f.op = "parsePrecedence" -> prefixed(advanceToken(q), f.n)
      [] f.op = "assigned" -> assigned(q, f.flag)
      [] f.op = "infix" -> infixLoop40(q, f.n)
      [] OTHER -> invalidTarget(q, f.n)

\* The sources, far shorter than the 255 elements at which a loop over
\* elements reports an error: the beginning of a class body, a parameter list, an argument
\* list, a list, a dictionary or the block of a method, or nothing, then any
\* tokens.
TokenPrefixes ==
    {<< >>, <<"[">>, <<"identifier", "(">>, <<"identifier", "=", "{">>,
     <<"fun", "identifier", "(">>, <<"class", "identifier", "{">>,
     <<"class", "identifier", "{", "identifier", "(", ")", "{">>}

TokenSuffixes == UNION {[1..n -> TokenKinds] : n \in 0..MaxSuffix}

\* compile() is called on a source and does its first advance().
TokensBegin ==
    /\ tokenRun.phase = "idle"
    /\ \E prefix \in TokenPrefixes : \E suffix \in TokenSuffixes :
          tokenRun' = advanceToken([tokenRun EXCEPT !.tokens = prefix \o suffix,
                                                    !.stack = <<Do("compile")>>,
                                                    !.phase = "compiling"])
    /\ UNCHANGED <<chunk, pool, starts, atOffset, visited, dpc, lineVars, jumpRun, scanner>>
    /\ UNCHANGED <<vmVars, compVars>>

\* The compiler executes the next piece of its code.
TokensStep ==
    /\ tokenRun.phase = "compiling"
    /\ tokenRun.stack # << >>
    /\ tokenRun' = execute(tokenRun, Head(tokenRun.stack))
    /\ UNCHANGED <<chunk, pool, starts, atOffset, visited, dpc, lineVars, jumpRun, scanner>>
    /\ UNCHANGED <<vmVars, compVars>>

\* The loop of compile() is over: endCompiler and return.
TokensEnd ==
    /\ tokenRun.phase = "compiling"
    /\ tokenRun.stack = << >>
    /\ tokenRun' = [tokenRun EXCEPT !.phase = "done"]
    /\ UNCHANGED <<chunk, pool, starts, atOffset, visited, dpc, lineVars, jumpRun, scanner>>
    /\ UNCHANGED <<vmVars, compVars>>

NextTokens == TokensBegin \/ TokensStep \/ TokensEnd

\* compile() is sequential code: it goes on as long as it has a next step.
SpecTokens == Init /\ [][NextTokens]_vars /\ WF_vars(TokensStep \/ TokensEnd)

MaxInstructions == 2
MaxUpvalues == 1

\* The opcodes compiler.c passes to emitByte alone.
ByteEmitted == {OP_NIL, OP_TRUE, OP_FALSE, OP_POP, OP_EQUAL, OP_GREATER, OP_LESS,
                OP_ADD, OP_SUBTRACT, OP_MULTIPLY, OP_DIVIDE, OP_NOT, OP_NEGATE,
                OP_PRINT, OP_RETURN, OP_CLOSE_UPVALUE, OP_INHERIT,
                OP_GET_ITEM, OP_SET_ITEM}

\* The opcodes compiler.c passes to emitBytes with one operand.
BytesEmitted == {OP_CONSTANT, OP_GET_LOCAL, OP_SET_LOCAL, OP_GET_GLOBAL,
                 OP_DEFINE_GLOBAL, OP_DEFINE_GLOBAL_PERM, OP_SET_GLOBAL,
                 OP_GET_UPVALUE, OP_SET_UPVALUE, OP_CALL, OP_GET_PROPERTY,
                 OP_SET_PROPERTY, OP_GET_SUPER, OP_METHOD, OP_CLASS,
                 OP_LIST, OP_DICTIONARY}

\* The opcodes followed by two bytes: emitBytes(op, name) and
\* emitByte(argCount), emitJump, emitLoop.
TwoEmitted == {OP_INVOKE, OP_SUPER_INVOKE, OP_JUMP, OP_JUMP_IF_FALSE, OP_LOOP}

\* The operand bytes tried.
OperandValues == {0, 2}

RECURSIVE upvaluePairs(_)
\* function(): isLocal and index of each upvalue.
upvaluePairs(n) == IF n = 0 THEN << >> ELSE upvaluePairs(n - 1) \o <<1, n - 1>>

\* The compiler appends the instruction bytes to the chunk.
writeInstruction(bytes) ==
    /\ dpc = "emitting"
    /\ Len(starts) < MaxInstructions
    /\ chunk' = chunk \o bytes
    /\ starts' = Append(starts, Len(chunk))
    /\ UNCHANGED <<atOffset, visited, dpc, lineVars, jumpRun, scanner, tokenRun>>
    /\ UNCHANGED <<vmVars, compVars>>

EmitByte ==
    /\ \E op \in ByteEmitted : writeInstruction(<<op>>)
    /\ UNCHANGED pool

EmitBytes ==
    /\ \E op \in BytesEmitted : \E b \in OperandValues : writeInstruction(<<op, b>>)
    /\ UNCHANGED pool

EmitThree ==
    /\ \E op \in TwoEmitted : \E b \in OperandValues : writeInstruction(<<op, 0, b>>)
    /\ UNCHANGED pool

\* function(): OP_CLOSURE with the constant makeConstant returns, then the
\* upvalue pairs.
EmitClosure ==
    /\ \E n \in 0..MaxUpvalues :
          /\ writeInstruction(<<OP_CLOSURE, Len(pool)>> \o upvaluePairs(n))
          /\ pool' = Append(pool, n)

simpleInstruction(at) == at + 1
byteInstruction(at) == at + 2
jumpInstruction(at) == at + 3
constantInstruction(at) == at + 2
invokeInstruction(at) == at + 3

\* The OP_CLOSURE case reads the constant and the function's upvalueCount.
closureInstruction(code, constants, at) == at + 2 + 2 * constants[code[at + 2] + 1]

\* The OP_CLOSURE case would read past the code or past the constants.
ClosureUndefined(code, constants, at) ==
    /\ code[at + 1] = OP_CLOSURE
    /\ \/ at + 1 >= Len(code)
       \/ code[at + 2] >= Len(constants)

\* disassembleInstruction(chunk, offset): the offset it returns.
disassembleInstruction(code, constants, at) ==
    LET instruction == code[at + 1] IN
    IF instruction \in {OP_CONSTANT, OP_GET_GLOBAL, OP_DEFINE_GLOBAL,
                        OP_DEFINE_GLOBAL_PERM, OP_SET_GLOBAL, OP_GET_PROPERTY,
                        OP_SET_PROPERTY, OP_GET_SUPER, OP_CLASS, OP_METHOD}
    THEN constantInstruction(at)
    ELSE IF instruction \in {OP_GET_LOCAL, OP_SET_LOCAL, OP_GET_ITEM, OP_SET_ITEM,
                             OP_GET_UPVALUE, OP_SET_UPVALUE, OP_CALL}
    THEN byteInstruction(at)
    ELSE IF instruction \in {OP_JUMP, OP_JUMP_IF_FALSE, OP_LOOP}
    THEN jumpInstruction(at)
    ELSE IF instruction \in {OP_INVOKE, OP_SUPER_INVOKE}
    THEN invokeInstruction(at)
    ELSE IF instruction = OP_CLOSURE
    THEN closureInstruction(code, constants, at)
    ELSE simpleInstruction(at)

\* disassembleChunk is called on the chunk.
disassembleChunk ==
    /\ dpc = "emitting"
    /\ chunk # << >>
    /\ dpc' = "disassembling"
    /\ atOffset' = 0
    /\ UNCHANGED <<chunk, pool, starts, visited, lineVars, jumpRun, scanner, tokenRun>>
    /\ UNCHANGED <<vmVars, compVars>>

\* One turn of the loop of disassembleChunk.
DisassembleNext ==
    /\ dpc = "disassembling"
    /\ atOffset < Len(chunk)
    /\ visited' = Append(visited, atOffset)
    /\ IF ClosureUndefined(chunk, pool, atOffset)
       THEN dpc' = "undefined" /\ UNCHANGED atOffset
       ELSE /\ atOffset' = disassembleInstruction(chunk, pool, atOffset)
            /\ dpc' = IF atOffset' < Len(chunk) THEN "disassembling" ELSE "done"
    /\ UNCHANGED <<chunk, pool, starts, lineVars, jumpRun, scanner, tokenRun>>
    /\ UNCHANGED <<vmVars, compVars>>

NextDebug ==
    \/ EmitByte \/ EmitBytes \/ EmitThree \/ EmitClosure
    \/ disassembleChunk \/ DisassembleNext

SpecDebug == Init /\ [][NextDebug]_vars

\* C23: for every opcode the instruction length the disassembler assumes is
\* the number of bytes the compiler emits, so disassembling a compiled chunk
\* visits exactly the instruction boundaries and ends at the end of the chunk.
C23_DisassemblerKeepsBoundaries ==
    /\ dpc # "undefined"
    /\ dpc = "done" => (visited = starts /\ atOffset = Len(chunk))

(***************************************************************************)
(* The line of each byte (chunk.c, emitByte).  emitByte passes the line of *)
(* parser.previous to writeChunk; the lines of the tokens of a source do   *)
(* not decrease.  writeChunk as chunk.c defines it takes the chunk and the *)
(* byte: it stores the byte and writes nothing to chunk->lines, and        *)
(* initChunk does not set the pointer, so what a read of lines[i] finds is *)
(* not determined by the program.                                          *)
(***************************************************************************)
MaxBytes == 4
MaxLine == 2

\* What the read of a cell that was never written can find.
Unwritten == 0..MaxLine

\* writeChunk(chunk, byte): code[count] = byte; count++.
writeChunk(code, byte) == Append(code, byte)

\* emitByte(byte) with parser.previous.line = line.
EmitAtLine ==
    /\ Len(chunk) < MaxBytes
    /\ \E byte \in {OP_NIL, OP_POP, OP_RETURN} :
          chunk' = writeChunk(chunk, byte)
    /\ \E line \in 1..MaxLine :
          /\ tokenLines # << >> => line >= tokenLines[Len(tokenLines)]
          /\ tokenLines' = Append(tokenLines, line)
    /\ \E found \in Unwritten : lines' = Append(lines, found)
    /\ UNCHANGED <<pool, starts, atOffset, visited, dpc, jumpRun, scanner, tokenRun>>
    /\ UNCHANGED <<vmVars, compVars>>

NextLines == EmitAtLine

SpecLines == Init /\ [][NextLines]_vars

\* C25: every byte written has in lines the line of the token that produced
\* it, and the lines of a chunk do not decrease.
C25_LinesFollowTokens ==
    /\ \A i \in 1..Len(chunk) : lines[i] = tokenLines[i]
    /\ \A i \in 2..Len(chunk) : lines[i - 1] <= lines[i]

(***************************************************************************)
(* Jumps: the compiler writes a forward jump with emitJump and patchJump   *)
(* and a backward jump with emitLoop; run() executes them.  A jump is      *)
(* compiled behind before bytes of code and over distance bytes of code.   *)
(***************************************************************************)
MaxBefore == 2

Distances == (0..3) \cup (254..258) \cup ((UINT16_MAX - 5)..(UINT16_MAX + 2))

\* n more bytes of code.
codeOf(k, n) ==
    [k EXCEPT !.compilers[Top(k)].code = @ \o [i \in 1..n |-> OP_NIL]]

\* run() at OP_JUMP, or at OP_JUMP_IF_FALSE on a falsey value, at offset at:
\* READ_SHORT, then frame->ip += offset.
jumpLands(code, at) == at + 3 + (code[at + 2] * 256 + code[at + 3])

\* run() at OP_LOOP at offset at: READ_SHORT, then frame->ip -= offset.
loopLands(code, at) == at + 3 - (code[at + 2] * 256 + code[at + 3])

\* The jump emitted at j, patched once distance more bytes are written.
jumpPatched(j, distance) == patchJump(codeOf(j.k, distance), j.ret)

jumpOutcome(op, before, distance, k) ==
    [op |-> op, before |-> before, distance |-> distance,
     target |-> Len(Cur(k).code),
     landed |-> jumpLands(Cur(k).code, before),
     errors |-> k.diagnostics]

loopOutcome(before, distance, k) ==
    [op |-> OP_LOOP, before |-> before, distance |-> distance,
     target |-> before,
     landed |-> loopLands(Cur(k).code, before + distance),
     errors |-> k.diagnostics]

\* The compiler state compile() starts from, with n bytes of code.
CodeStart(n) ==
    codeOf(initCompiler([compilers |-> << >>, hadError |-> FALSE, panicMode |-> FALSE,
                         diagnostics |-> << >>, stores |-> << >>, loopLog |-> << >>],
                        TYPE_SCRIPT, ""), n)

\* emitJump, distance bytes of code, patchJump; then the jump is executed.
JumpForward ==
    /\ \E op \in {OP_JUMP, OP_JUMP_IF_FALSE} : \E before \in 0..MaxBefore :
       \E distance \in Distances :
          jumpRun' = jumpOutcome(op, before, distance,
                                 jumpPatched(emitJump(CodeStart(before), op), distance))
    /\ UNCHANGED <<chunk, pool, starts, atOffset, visited, dpc, lineVars, scanner, tokenRun>>
    /\ UNCHANGED <<vmVars, compVars>>

\* loopStart = count, distance bytes of code, emitLoop(loopStart); then the
\* loop instruction is executed.
JumpBack ==
    /\ \E before \in 0..MaxBefore : \E distance \in Distances :
          jumpRun' = loopOutcome(before, distance,
                                 emitLoop(codeOf(CodeStart(before), distance), before))
    /\ UNCHANGED <<chunk, pool, starts, atOffset, visited, dpc, lineVars, scanner, tokenRun>>
    /\ UNCHANGED <<vmVars, compVars>>

NextJump == JumpForward \/ JumpBack

SpecJump == Init /\ [][NextJump]_vars

\* The distance the operand of the jump compiled has to hold.
OperandNeeded ==
    IF jumpRun.op = OP_LOOP THEN jumpRun.distance + 3 ELSE jumpRun.distance

\* C29: a jump written by emitJump and patchJump lands, when executed, at the
\* end of the chunk as it was when patchJump ran, and a loop written by
\* emitLoop(loopStart) lands at loopStart, for every operand from 0 to 65535;
\* a larger distance is reported as a compile error.
C29_JumpsLandWherePatched ==
    jumpRun.op # 0 =>
        IF OperandNeeded <= UINT16_MAX
        THEN jumpRun.landed = jumpRun.target /\ jumpRun.errors = << >>
        ELSE jumpRun.errors =
                <<IF jumpRun.op = OP_LOOP THEN "Loop body too large."
                  ELSE "Too much code to jump over.">>

\* A forward jump over 65535 bytes has landed at the end of the chunk.
C29_Witness ==
    /\ jumpRun.op = OP_JUMP_IF_FALSE
    /\ jumpRun.distance = UINT16_MAX
    /\ jumpRun.target = jumpRun.before + 3 + UINT16_MAX
    /\ jumpRun.landed = jumpRun.target
    /\ jumpRun.errors = << >>

\* A loop whose operand is 65535 has landed at loopStart.
C29_WitnessLoop ==
    /\ jumpRun.op = OP_LOOP
    /\ jumpRun.distance = UINT16_MAX - 3
    /\ jumpRun.landed = jumpRun.before
    /\ jumpRun.errors = << >>

(***************************************************************************)
(* Properties of the compiler.                                             *)
(***************************************************************************)
PermMessage == "Can't reassign to permanent variable"

Count(seq, m) == Cardinality({i \in DOMAIN seq : seq[i] = m})

\* The stores the step has emitted.
NewStores == {stores'[i] : i \in (Len(stores) + 1)..Len(stores')}

PermLocalStore == [op |-> OP_SET_LOCAL, perm |-> TRUE]
PermUpvalueStore == [op |-> OP_SET_UPVALUE, perm |-> TRUE]

Emitted == {stores[i] : i \in DOMAIN stores}

\* The statement that assigns to a perm local prints the message.
PermAssignmentPrinted ==
    PermLocalStore \in NewStores =>
        Count(diagnostics', PermMessage) > Count(diagnostics, PermMessage)

\* C8 as stated: an assignment to a perm local of the current function
\* produces the compile error 'Can't reassign to permanent variable', so
\* compile returns null and no SET_LOCAL onto a perm local is executed.
C8_PermAssignmentReported ==
    /\ [][PermAssignmentPrinted]_vars
    /\ [](cresult = "function" => PermLocalStore \notin Emitted)

\* The statement that assigns to a perm local sets hadError; the message is
\* printed unless panic mode, entered at an earlier error that was printed,
\* suppresses it.
PermAssignmentRejected ==
    PermLocalStore \in NewStores =>
        /\ parser'.hadError
        /\ \/ Count(diagnostics', PermMessage) > Count(diagnostics, PermMessage)
           \/ Len(diagnostics') > Len(diagnostics)
           \/ parser.panicMode

\* C8, amended: an assignment to a perm local of the current function calls
\* error with 'Can't reassign to permanent variable': hadError is set, and
\* the message is printed unless the parser is already in panic mode after
\* an earlier printed error; compile returns null, so no SET_LOCAL onto a
\* perm local is ever executed.
C8_PermAssignmentRejected ==
    /\ [][PermAssignmentRejected]_vars
    /\ [](cresult # "function" \/ PermLocalStore \notin Emitted)

\* compile has returned null for a source that assigns to a perm local, the
\* message printed.
C8_Witness ==
    /\ cpc = "done"
    /\ cresult = "null"
    /\ PermLocalStore \in Emitted
    /\ Count(diagnostics, PermMessage) = 1

\* C9: a perm local is immutable for its lifetime, also through a nested
\* function's upvalue: no program compile accepts holds a SET_LOCAL or a
\* SET_UPVALUE that writes a perm local.
C9_PermLocalImmutable ==
    cresult = "function" =>
        (PermLocalStore \notin Emitted /\ PermUpvalueStore \notin Emitted)

\* A break or continue with no loop around it in the current function.
OutsideLoop ==
    /\ At("break") \/ At("continue")
    /\ compilers[Len(compilers)].loops = << >>

\* C10: break or continue outside any loop, also in a function body nested
\* in a loop, reports a compile error and compilation goes on to the end of
\* the source, where compile returns null.
C10_BreakOutsideLoopReported ==
    /\ [][OutsideLoop => (parser'.hadError /\ cpc' = "compiling")]_vars
    /\ [](cpc \in {"idle", "compiling", "done"})

\* What compile returns tells whether errorAt printed during the call.
ReturnsNullIffError ==
    cpc = "done" => (cresult = "null" <=> diagnostics # << >>)

\* hadError, once set, is set in every later state of the same call.
HadErrorStays ==
    (cpc = "compiling" /\ parser.hadError) => parser'.hadError

PanicSuppresses ==
    /\ Len(diagnostics') <= Len(diagnostics) + 1
    /\ parser.panicMode => Len(diagnostics') <= Len(diagnostics)

\* The statements that end with ';'.
SemicolonKinds == {"var", "perm", "expr", "break", "continue", "print", "if"}

\* The parser stands where synchronize returns.
StopsHere(p) ==
    \/ p > Len(source)
    \/ source[p][1] \in {"class", "fun", "var", "for", "if", "while", "print", "return"}
    \/ p > 1 /\ source[p - 1][1] \in SemicolonKinds

\* synchronize skips nothing it should stop at and stops only there.
SynchronizeStops ==
    (cpc = "compiling" /\ syncing) =>
        /\ ~syncing' => StopsHere(pos')
        /\ pos' # pos => ~StopsHere(pos)

\* C12: after an error is reported no further message is emitted until
\* synchronize has run; synchronize clears panic mode and skips tokens until
\* the previous token is ';' or the current one is class, fun, var, for, if,
\* while, print, return or the end of the source.
C12_PanicUntilSynchronize ==
    /\ [][PanicSuppresses]_vars
    /\ [][SynchronizeStops]_vars
    /\ [](syncing => ~parser.panicMode)

\* Two declarations in error: the first printed one message and kept the
\* message about the perm assignment back, the second printed its own.
C12_Witness ==
    /\ cpc = "done"
    /\ Len(diagnostics) = 2
    /\ Count(diagnostics, PermMessage) = 1
    /\ Count(stores, PermLocalStore) = 2

(***************************************************************************)
(* Properties of compiled loops, on the run of the script.                 *)
(***************************************************************************)
Logged(kind) ==
    {loopLog[i] : i \in {j \in DOMAIN loopLog :
                            loopLog[j].kind = kind /\ loopLog[j].fn = 1}}

LoopOf(e) == CHOOSE l \in Logged("loop") : l.stmt = e.stmt

\* run() is about to execute the instruction at offset at of the script.
ScriptAt(at) == pc = "running" /\ frame = 0 /\ frames[0].ip = at

\* No open upvalue points at the cell top or above it.
NoneOpenFrom(h, open, top) ==
    \A u \in OpenIds(h, open) : h[u].location[2] < top

\* The JUMP of a break lands on the exit of the loop statement around it,
\* the locals of the loop body gone from the stack and closed.
BreakLeavesLoop ==
    \A b \in Logged("break") :
        ScriptAt(b.at) =>
            /\ CodeAt(b.at) = OP_JUMP
            /\ frames'[0].ip = LoopOf(b).at
            /\ stackTop' - frames'[0].slots = LoopOf(b).locals
            /\ NoneOpenFrom(heap', openUpvalues', stackTop')

\* Whichever way the exit of a loop is reached, the stack holds the locals
\* declared before the loop body and nothing else.
ExitHeight ==
    \A l \in Logged("loop") :
        ScriptAt(l.at) => stackTop - frames[0].slots = l.locals

\* The instruction before the exit pops the condition that was false.
ExitPopsCondition ==
    \A l \in Logged("loop") :
        (ScriptAt(l.at - 1) /\ CodeAt(l.at - 1) = OP_POP) => isFalsey(peek(0))

\* C13: a break transfers control to the first instruction after the
\* innermost enclosing loop, the point a normal exit reaches once the false
\* condition is popped, with every local declared in the loop body popped
\* or closed: the stack is as high as after a normal exit.
C13_BreakLeavesLoop ==
    /\ [][BreakLeavesLoop]_vars
    /\ []ExitHeight
    /\ [][ExitPopsCondition]_vars

\* A break has just left a loop whose body declared a local that a closure
\* captured: the upvalue is closed.
C13_Witness ==
    /\ lastOp = OP_JUMP
    /\ \E l \in Logged("loop") : ScriptAt(l.at) /\ stackTop = l.locals
    /\ \E u \in DOMAIN heap :
          heap[u].type = "OBJ_UPVALUE" /\ heap[u].location = ClosedPtr(u)

\* The LOOP of a continue finds the stack holding the locals declared up to
\* the loop's scope depth and nothing else, none of the others left open,
\* and jumps to the increment clause, or to the condition when there is no
\* increment clause.
ContinueRestarts ==
    \A c \in Logged("continue") :
        ScriptAt(c.at) =>
            /\ CodeAt(c.at) = OP_LOOP
            /\ stackTop - frames[0].slots = LoopOf(c).locals
            /\ NoneOpenFrom(heap, openUpvalues, stackTop)
            /\ frames'[0].ip = IF LoopOf(c).incr # 0 - 1 THEN LoopOf(c).incr
                               ELSE LoopOf(c).cond

\* C14: a continue pops or closes every local declared deeper than the
\* loop's scope depth, and no others, and then jumps to the loop's start:
\* the condition of a while loop, the increment clause of a for loop that
\* has one.
C14_ContinueRestartsLoop == [][ContinueRestarts]_vars

\* A continue in a for loop has just jumped to the increment clause.
C14_Witness ==
    /\ lastOp = OP_LOOP
    /\ source = ForSource(0, 3, 1, 0 - 1)
    /\ out = <<NUMBER_VAL(0)>>
    /\ \E l \in Logged("loop") : l.incr # 0 - 1 /\ ScriptAt(l.incr)
    /\ AS_NUMBER(stack[1]) = 1

\* What a counting loop prints: from i on, below limit (-1: no limit),
\* leaving out skip and ending at stop.
RECURSIVE Counted(_, _, _, _)
Counted(i, limit, skip, stop) ==
    IF limit # 0 - 1 /\ ~(i < limit) THEN << >>
    ELSE IF i = skip THEN Counted(i + 1, limit, skip, stop)
    ELSE IF i = stop THEN << >>
    ELSE <<NUMBER_VAL(i)>> \o Counted(i + 1, limit, skip, stop)

\* The run is over without an error.
Finished == pc = "returned" /\ result = INTERPRET_OK

\* A for loop runs init once and then cond, body, incr in that order until
\* cond is falsey, and nothing it declared is left on the stack.
ForOrder ==
    /\ \A q \in ForParams :
          (Finished /\ source = ForSource(q[1], q[2], q[3], q[4])) =>
              /\ out = Counted(q[1], q[2], q[3], q[4])
              /\ stackTop = 0
    /\ \A q \in ClauseParams :
          (Finished /\ source = ClauseSource(q[1], q[2], q[3], q[4])) =>
              /\ out = Counted(0, IF q[2][1] = "none" THEN 0 - 1 ELSE 3,
                               IF q[4][1] = "continue" THEN 1 ELSE 0 - 1,
                               IF q[4][1] = "break" THEN 1 ELSE 0 - 1)
              /\ stackTop = 0

\* C15: the code of for (init; cond; incr) executes init once, then cond,
\* body, incr in that order; it leaves the loop the first time cond is
\* falsey and pops the local the loop introduced.  With continue at 1 and
\* break at 4, for (var i = 0; i < 5; i = i + 1) prints 0, 2, 3.
C15_ForLoopOrder == []ForOrder

\* for (var i = 0; i < 5; i = i + 1) with continue at 1 and break at 4 has
\* run and printed 0, 2, 3.
C15_Witness ==
    /\ Finished
    /\ source = ForSource(0, 5, 1, 4)
    /\ out = <<NUMBER_VAL(0), NUMBER_VAL(2), NUMBER_VAL(3)>>
    /\ stackTop = 0


(***************************************************************************)
(* Properties of the expression parser.                                    *)
(***************************************************************************)
\* The print statement of the source is compiled and has 'and' or 'or'
\* behind a complete operand.
LogicalCompiled ==
    /\ cpc = "compiling"
    /\ pos = 2
    /\ source[1][1] = "printTokens"
    /\ \E i \in 2..Len(source[1][2]) : source[1][2][i] \in {"and", "or"}

\* rules[] with 'and' and 'or' at the precedences PREC_AND and PREC_OR.
rulesWithLogical ==
    [rules EXCEPT !["and"].precedence = PREC_AND, !["or"].precedence = PREC_OR]

\* The compiler state compile() starts the script from.
ScriptStart ==
    initCompiler([K EXCEPT !.compilers = << >>, !.diagnostics = << >>,
                           !.hadError = FALSE, !.panicMode = FALSE],
                 TYPE_SCRIPT, "")

\* C24: an 'and' or 'or' that follows a complete operand is consumed as an
\* infix operator of precedence PREC_AND or PREC_OR: the statement compiles
\* without an error, to the code of the operands around the short-circuit
\* jumps of and_ and or_.
C24_LogicalIsInfix ==
    LogicalCompiled =>
        /\ diagnostics = << >>
        /\ Cur(K).code =
              Cur(printTokensCode(rulesWithLogical, source[1][2], ScriptStart).k).code


(***************************************************************************)
(* Properties of declareVariable.                                          *)
(***************************************************************************)
AlreadyMessage == "Already a variable with this name in this scope."

\* The parser is at a declaration of a name that a local of the current
\* function, declared at the current scope depth, already has.
Redeclares ==
    /\ cpc = "compiling"
    /\ ~syncing
    /\ pos <= Len(source)
    /\ source[pos][1] \in {"var", "perm", "fun"}
    /\ Cur(K).scopeDepth > 0
    /\ \E i \in 0..(Cur(K).localCount - 1) :
          /\ Cur(K).locals[i].name = source[pos][2]
          /\ Cur(K).locals[i].depth = Cur(K).scopeDepth

\* C28 as stated: declaring a local under the name of a local of the same
\* scope depth of the same function reports 'Already a variable with this
\* name in this scope.'
C28_RedeclarationReported ==
    [][Redeclares => diagnostics' = Append(diagnostics, AlreadyMessage)]_vars

\* C28, amended: the declaration calls error with the message: hadError is
\* set, and the message is printed unless the parser is already in panic
\* mode after an earlier printed error.
C28_RedeclarationRejected ==
    [][Redeclares =>
          /\ parser'.hadError
          /\ IF parser.panicMode
             THEN diagnostics' = diagnostics /\ diagnostics # << >>
             ELSE diagnostics' = Append(diagnostics, AlreadyMessage)]_vars

\* 'var p' in the body of f(p) has been reported.
C28_Witness ==
    /\ cpc = "compiling"
    /\ pos = 5
    /\ source[3] = <<"fun", "f", <<"p">>>>
    /\ source[4][1] = "var" /\ source[4][2] = "p"
    /\ diagnostics = <<AlreadyMessage>>
    /\ parser.hadError


(***************************************************************************)
(* Properties of the collector during compilation.                         *)
(***************************************************************************)
\* C32: a collection that runs while compile() is in progress marks the
\* function of every compiler on the chain from current through enclosing:
\* the function being compiled and each enclosing one.
C32_CompilerChainMarked ==
    [][(cpc = "compiling" /\ marked' # marked) =>
          \A i \in 1..Len(compilers) : FunctionOf(i) \in marked']_vars

\* In the first compile a collection has run inside a function declaration:
\* the function and the script around it are marked.
C32_Witness ==
    /\ cpc = "compiling"
    /\ earlier = << >>
    /\ Len(compilers) = 2
    /\ {FunctionOf(1), FunctionOf(2)} \subseteq marked


\* The parser is at a declaration of a name that locals of the current
\* function have, all of them declared at a shallower scope depth.
Shadows ==
    /\ cpc = "compiling"
    /\ ~syncing
    /\ pos <= Len(source)
    /\ source[pos][1] \in {"var", "perm", "fun"}
    /\ Cur(K).scopeDepth > 0
    /\ \E i \in 0..(Cur(K).localCount - 1) : Cur(K).locals[i].name = source[pos][2]
    /\ \A i \in 0..(Cur(K).localCount - 1) :
          Cur(K).locals[i].name = source[pos][2] =>
             /\ Cur(K).locals[i].depth >= 0
             /\ Cur(K).locals[i].depth < Cur(K).scopeDepth

\* C34: declaring a local whose name only locals of a strictly shallower
\* scope depth have, one of depth 1 included, reports no error: the
\* declaration adds no 'Already a variable with this name in this scope.'
C34_ShadowingAccepted ==
    [][Shadows =>
          ~(/\ Len(diagnostics') > Len(diagnostics)
            /\ diagnostics'[Len(diagnostics) + 1] = AlreadyMessage)]_vars


(***************************************************************************)
(* Properties of the test for permanent variables in namedVariable.        *)
(***************************************************************************)
\* C35: 'Can't reassign to permanent variable' is reported only for an
\* assignment whose target is a permanent local: a statement that prints the
\* message has compiled a store to a local declared perm, never only stores
\* to globals or upvalues.
C35_OnlyPermLocalsRejected ==
    [][Count(diagnostics', PermMessage) > Count(diagnostics, PermMessage) =>
          PermLocalStore \in NewStores]_vars

====
